---- MODULE Spec2Model ----
(***************************************************************************)
(* A model of the spectrum service of mjfitzpatrick/specserver.            *)
(*                                                                         *)
(*   - the identifier codec   (src/svc_sdss.py: pack_specobjid,            *)
(*                             unpack_specobjid)                           *)
(*   - the id expansion       (src/svc_sdss.py: sdssService.expandIDList,  *)
(*                             sdssService._expandID)                      *)
(*   - retrieval & alignment  (src/svr_async.py: getSpec, _listSpan)       *)
(*                                                                         *)
(* Representation.  TLC's integers are 32 bits wide, so a numpy uint64 is  *)
(* a function from bit position 0..63 (0 = least significant) to {0,1},    *)
(* with shifts, masks and subtraction working on the 64 bits as numpy      *)
(* does (bits shifted past position 63 are lost, subtraction wraps).  A    *)
(* Python str is a sequence of one-character strings.  Unbounded decimal   *)
(* numbers (the printed value of an identifier) are little-endian          *)
(* sequences of decimal digits.                                            *)
(***************************************************************************)
EXTENDS Integers, Sequences, FiniteSets, TLC

(***************************************************************************)
(* Small helpers.                                                          *)
(***************************************************************************)
Min(a, b) == IF a < b THEN a ELSE b
Max(a, b) == IF a > b THEN a ELSE b

\* 2**k, for k <= 30.
Pow2(k) == 2 ^ k

(***************************************************************************)
(* numpy.uint64: 64 bits, least significant first.                         *)
(***************************************************************************)
W == 64
BitIdx == 0 .. (W - 1)

\* np.array([n], dtype=np.uint64) for a Python int 0 <= n < 2^31.
U64(n) == [i \in BitIdx |-> IF i < 31 THEN (n \div Pow2(i)) % 2 ELSE 0]

\* x << k on uint64: the bits shifted past position 63 are dropped.
Shl(x, k) == [i \in BitIdx |-> IF i >= k THEN x[i - k] ELSE 0]

\* x >> k on uint64.
Shr(x, k) == [i \in BitIdx |-> IF i + k < W THEN x[i + k] ELSE 0]

\* x | y and np.bitwise_and(x, y).
Or64(x, y)  == [i \in BitIdx |-> IF x[i] = 1 \/ y[i] = 1 THEN 1 ELSE 0]
And64(x, y) == [i \in BitIdx |-> IF x[i] = 1 /\ y[i] = 1 THEN 1 ELSE 0]

\* The bits i..63 of x - y, given the borrow b into bit i.
RECURSIVE SubBits(_, _, _, _)
SubBits(x, y, i, b) ==
    IF i = W THEN <<>>
    ELSE LET d == x[i] - y[i] - b
         IN  <<(d + 2) % 2>> \o SubBits(x, y, i + 1, IF d < 0 THEN 1 ELSE 0)

\* x - y on uint64: wraps modulo 2^64.
Sub64(x, y) == LET s == SubBits(x, y, 0, 0) IN [i \in BitIdx |-> s[i + 1]]

\* The Python int of a uint64 known to be below 2^31 (a masked field).
RECURSIVE ToNatFrom(_, _)
ToNatFrom(x, i) == IF i > 30 THEN 0 ELSE x[i] + 2 * ToNatFrom(x, i + 1)
ToNat(x) == ToNatFrom(x, 0)

\* np.bitwise_and(x >> sh, 2**width - 1) as a Python int.
Field(x, sh, width) == ToNat(And64(Shr(x, sh), U64(Pow2(width) - 1)))

(***************************************************************************)
(* Decimal numbers of up to 20 digits: five limbs of four decimal digits,  *)
(* least significant limb first.  They give the printed (decimal) value of *)
(* an identifier and the arithmetic the documentation states identifiers   *)
(* in, independently of the binary operations above.                       *)
(***************************************************************************)
BigBase == 10 ^ 4

BigOfNat(n) ==
    <<n % BigBase, (n \div BigBase) % BigBase, n \div (BigBase * BigBase), 0, 0>>

BigAdd(a, b) ==
    LET s1 == a[1] + b[1]
        s2 == a[2] + b[2] + (s1 \div BigBase)
        s3 == a[3] + b[3] + (s2 \div BigBase)
        s4 == a[4] + b[4] + (s3 \div BigBase)
        s5 == a[5] + b[5] + (s4 \div BigBase)
    IN  <<s1 % BigBase, s2 % BigBase, s3 % BigBase, s4 % BigBase, s5>>

\* a * m for 0 <= m <= 2^16
BigMul(a, m) ==
    LET s1 == a[1] * m
        s2 == a[2] * m + (s1 \div BigBase)
        s3 == a[3] * m + (s2 \div BigBase)
        s4 == a[4] * m + (s3 \div BigBase)
        s5 == a[5] * m + (s4 \div BigBase)
    IN  <<s1 % BigBase, s2 % BigBase, s3 % BigBase, s4 % BigBase, s5>>

\* a * 2^k
RECURSIVE BigShl(_, _)
BigShl(a, k) == IF k <= 16 THEN BigMul(a, 2 ^ k)
                ELSE BigMul(BigShl(a, k - 16), 2 ^ 16)

\* The integer of the four bits i..i+3 and of the sixteen bits i..i+15 of x.
Nibble(x, i) == x[i] + 2 * x[i + 1] + 4 * x[i + 2] + 8 * x[i + 3]
Limb16(x, i) ==
    Nibble(x, i) + 16 * Nibble(x, i + 4) + 256 * Nibble(x, i + 8)
        + 4096 * Nibble(x, i + 12)

\* A uint64 as it is kept in the state: its four 16-bit limbs, most
\* significant first; and the uint64 of such a tuple.
Limbs(x) == <<Limb16(x, 48), Limb16(x, 32), Limb16(x, 16), Limb16(x, 0)>>
OfLimbs(l) == [i \in BitIdx |-> (l[4 - (i \div 16)] \div Pow2(i % 16)) % 2]

\* The mathematical value of a uint64.
BigOfU64(x) ==
    BigAdd(BigAdd(BigOfNat(Limb16(x, 0)), BigShl(BigOfNat(Limb16(x, 16)), 16)),
           BigAdd(BigShl(BigOfNat(Limb16(x, 32)), 32),
                  BigShl(BigOfNat(Limb16(x, 48)), 48)))

\* A decimal literal written in groups of four digits, most significant
\* group first.
DecLit(d5, d4, d3, d2, d1) == <<d1, d2, d3, d4, d5>>

(***************************************************************************)
(* Python str: sequences of characters.                                    *)
(***************************************************************************)
DigitChars == <<"0", "1", "2", "3", "4", "5", "6", "7", "8", "9">>
IsDigit(c) == \E d \in 1 .. 10 : DigitChars[d] = c
DigitVal(c) == (CHOOSE d \in 1 .. 10 : DigitChars[d] = c) - 1

\* '{:d}'.format(n) / str(n) for n >= 0.
RECURSIVE DecStr(_)
DecStr(n) == IF n < 10 THEN <<DigitChars[n + 1]>>
             ELSE DecStr(n \div 10) \o <<DigitChars[(n % 10) + 1]>>

\* The value of a run of digit characters.
RECURSIVE DigitsVal(_)
DigitsVal(s) == IF s = <<>> THEN 0
                ELSE 10 * DigitsVal(SubSeq(s, 1, Len(s) - 1)) + DigitVal(s[Len(s)])

\* The length of the longest run of digits that starts at position i.
RECURSIVE DigitRun(_, _)
DigitRun(s, i) == IF i <= Len(s) /\ IsDigit(s[i]) THEN 1 + DigitRun(s, i + 1) ELSE 0

\* s with every '_' removed.
RECURSIVE DropUnderscores(_)
DropUnderscores(s) ==
    IF s = <<>> THEN <<>>
    ELSE (IF Head(s) = "_" THEN <<>> ELSE <<Head(s)>>) \o DropUnderscores(Tail(s))

\* int(s) accepts a decimal literal: digits, with single underscores allowed
\* between digits (signs and surrounding blanks are not in the alphabet used
\* here).  Anything else raises ValueError.
IntAccepts(s) ==
    /\ s # <<>>
    /\ IsDigit(s[1]) /\ IsDigit(s[Len(s)])
    /\ \A i \in 1 .. Len(s) : IsDigit(s[i]) \/ s[i] = "_"
    /\ \A i \in 1 .. (Len(s) - 1) : ~(s[i] = "_" /\ s[i + 1] = "_")
IntOf(s) == DigitsVal(DropUnderscores(s))

(***************************************************************************)
(* The identifier codec (src/svc_sdss.py).                                 *)
(*                                                                         *)
(* A run2d argument is [kind, n, s]: kind "int" is a Python int n, kind    *)
(* "str" a Python str s, kind "arr" a one-element numpy array of strings   *)
(* (what unpack_specobjid returns in its run2d column).                    *)
(***************************************************************************)
RunInt(n) == [kind |-> "int", n |-> n, s |-> <<>>]
RunStr(s) == [kind |-> "str", n |-> 0, s |-> s]
RunArr(s) == [kind |-> "arr", n |-> 0, s |-> s]

\* What a call returned or raised; an identifier is kept as its limbs.
Returned(id) == [tag |-> "ok", id |-> Limbs(id), exc |-> "none"]
Raised(exc)  == [tag |-> "raise", id |-> Limbs(U64(0)), exc |-> exc]
NoResult     == [tag |-> "none", id |-> Limbs(U64(0)), exc |-> "none"]

\* re.match(r'v(\d+)_(\d+)_(\d+)', s): a match at the start of s; whatever
\* follows the third group is ignored.  The result is the three groups, or
\* ok = FALSE for None.
VersionMatch(s) ==
    LET n1 == DigitRun(s, 2)
        n2 == DigitRun(s, 3 + n1)
        n3 == DigitRun(s, 4 + n1 + n2)
        ok == /\ Len(s) >= 1 /\ s[1] = "v"
              /\ n1 > 0 /\ Len(s) >= 2 + n1 /\ s[2 + n1] = "_"
              /\ n2 > 0 /\ Len(s) >= 3 + n1 + n2 /\ s[3 + n1 + n2] = "_"
              /\ n3 > 0
    IN  [ok |-> ok,
         N |-> IF ok THEN SubSeq(s, 2, 1 + n1) ELSE <<>>,
         M |-> IF ok THEN SubSeq(s, 3 + n1, 2 + n1 + n2) ELSE <<>>,
         P |-> IF ok THEN SubSeq(s, 4 + n1 + n2, 3 + n1 + n2 + n3) ELSE <<>>]

\* The cnv table of the array branch: np.where(R == t, cnv[t], R) over a
\* string array leaves the decimal spelling of cnv[t] in place of t.
CnvTable(s) ==
    IF s = <<"v", "5", "_", "1", "0", "_", "0">> THEN DecStr(1000)
    ELSE IF s = <<"v", "5", "_", "1", "3", "_", "0">> THEN DecStr(1300)
    ELSE s

\* The integer run2d code that pack_specobjid derives from its run2d
\* argument: [ok, val], ok = FALSE when ValueError is raised.
Run2dCode(run2d) ==
    IF run2d.kind = "int" THEN [ok |-> TRUE, val |-> run2d.n]
    ELSE IF run2d.kind = "str" THEN
        IF IntAccepts(run2d.s) THEN [ok |-> TRUE, val |-> IntOf(run2d.s)]
        ELSE LET m == VersionMatch(run2d.s) IN
             IF ~m.ok THEN [ok |-> FALSE, val |-> 0]
             ELSE [ok |-> TRUE,
                   val |-> (IntOf(m.N) - 5) * 10000 + IntOf(m.M) * 100 + IntOf(m.P)]
    ELSE LET R == CnvTable(run2d.s) IN        \* R.astype(np.uint32)
         IF IntAccepts(R) THEN [ok |-> TRUE, val |-> IntOf(R)]
         ELSE [ok |-> FALSE, val |-> 0]

\* The shifts of the four fields.
PlateShift == 50
FiberShift == 38
MjdShift   == 24
Run2dShift == 10

\* Mutation of Assemble: run2d is or-ed in without its shift.
AssembleRun2dUnshifted(plate, fiber, mjd, run2d) ==
    Or64(Or64(Shl(plate, PlateShift), Shl(fiber, FiberShift)),
         Or64(Shl(mjd, MjdShift), run2d))

\* (plate << 50) | (fiber << 38) | (mjd << 24) | (run2d << 10), on uint64.
Assemble(plate, fiber, mjd, run2d) ==
    Or64(Or64(Shl(plate, PlateShift), Shl(fiber, FiberShift)),
         Or64(Shl(mjd, MjdShift), Shl(run2d, Run2dShift)))

\* Mutation of MjdOffset: the 50000 is not subtracted.
MjdOffsetUnbiased(mjd) == U64(mjd)

\* mjd - 50000 on uint64.
MjdOffset(mjd) == Sub64(U64(mjd), U64(50000))

\* pack_specobjid(plate, mjd, fiber, run2d), in the order of its signature.
\* plate, mjd, fiber are non-negative integers below 2^31.  No field is
\* validated: the only exception is the ValueError of an unreadable run2d.
pack_specobjid(plate, mjd, fiber, run2d) ==
    LET r == Run2dCode(run2d) IN
    IF ~r.ok THEN Raised("ValueError")
    ELSE Returned(Assemble(U64(plate), U64(fiber), MjdOffset(mjd), U64(r.val)))

\* The assignment to the 'U8' column keeps at most 8 characters.
U8(s) == SubSeq(s, 1, Min(Len(s), 8))

\* Mutation of LegacyFix: the legacy codes keep their vN_M_P spelling.
LegacyFixNone(R) == R

\* "Fix the integer version conversion."
LegacyFix(R) ==
    IF R = <<"v", "5", "_", "1", "_", "3">> THEN <<"1", "0", "3">>
    ELSE IF R = <<"v", "5", "_", "1", "_", "4">> THEN <<"1", "0", "4">>
    ELSE IF R = <<"v", "5", "_", "0", "_", "2", "6">> THEN <<"2", "6">>
    ELSE R

\* 'v{0:d}_{1:d}_{2:d}'.format(N, M, P)
VersionFormat(N, M, P) ==
    <<"v">> \o DecStr(N) \o <<"_">> \o DecStr(M) \o <<"_">> \o DecStr(P)

\* Mutation of Run2dName: the major version is offset by 4 instead of 5.
Run2dNameOffBy1(run2d) ==
    IF run2d = 0 THEN <<>>
    ELSE LegacyFix(VersionFormat((run2d \div 10000) + 4,
                                 (run2d % 10000) \div 100,
                                 run2d % 100))

\* The run2d string of a 14-bit code.
Run2dName(run2d) ==
    IF run2d = 0 THEN <<>>
    ELSE LegacyFix(VersionFormat((run2d \div 10000) + 5,
                                 (run2d % 10000) \div 100,
                                 run2d % 100))

\* unpack_specobjid(specObjID) for one identifier.
unpack_specobjid(x) ==
    [plate |-> Field(x, 50, 14),
     fiber |-> Field(x, 38, 12),
     mjd   |-> Field(x, 24, 14) + 50000,
     run2d |-> U8(Run2dName(Field(x, 10, 14)))]

(***************************************************************************)
(* Python str operations used by the id expansion.                         *)
(***************************************************************************)
\* s.startswith(p)
StartsWith(s, p) == Len(s) >= Len(p) /\ SubSeq(s, 1, Len(p)) = p

\* p in s  (s.find(p) >= 0)
RECURSIVE Contains(_, _)
Contains(s, p) ==
    IF Len(s) < Len(p) THEN FALSE
    ELSE StartsWith(s, p) \/ Contains(Tail(s), p)

\* s.find(c) > 0 for a character c: c occurs, and not first.
FindPositive(s, c) ==
    /\ \E i \in 2 .. Len(s) : s[i] = c
    /\ s[1] # c

\* s.replace(old, new): every non-overlapping occurrence, left to right.
RECURSIVE Replace(_, _, _)
Replace(s, old, new) ==
    IF Len(s) < Len(old) THEN s
    ELSE IF StartsWith(s, old)
         THEN new \o Replace(SubSeq(s, Len(old) + 1, Len(s)), old, new)
         ELSE <<Head(s)>> \o Replace(Tail(s), old, new)

\* s.split(c) for a separator character c; cur is the piece being read.
RECURSIVE SplitFrom(_, _, _)
SplitFrom(s, c, cur) ==
    IF s = <<>> THEN <<cur>>
    ELSE IF Head(s) = c THEN <<cur>> \o SplitFrom(Tail(s), c, <<>>)
         ELSE SplitFrom(Tail(s), c, Append(cur, Head(s)))
Split(s, c) == SplitFrom(s, c, <<>>)

\* s.isdigit()
IsDigitStr(s) == s # <<>> /\ \A i \in 1 .. Len(s) : IsDigit(s[i])

\* s.strip() for blanks.
RECURSIVE Strip(_)
Strip(s) ==
    IF s # <<>> /\ Head(s) = " " THEN Strip(Tail(s))
    ELSE IF s # <<>> /\ s[Len(s)] = " " THEN Strip(SubSeq(s, 1, Len(s) - 1))
    ELSE s

\* sep.join(parts)
RECURSIVE Join(_, _)
Join(parts, sep) ==
    IF parts = <<>> THEN <<>>
    ELSE IF Len(parts) = 1 THEN parts[1]
    ELSE parts[1] \o sep \o Join(Tail(parts), sep)

\* The concatenation of a sequence of sequences.
RECURSIVE Flatten(_)
Flatten(ss) == IF ss = <<>> THEN <<>> ELSE Head(ss) \o Flatten(Tail(ss))

(***************************************************************************)
(* The id expansion (src/svc_sdss.py: expandIDList, _expandID).            *)
(*                                                                         *)
(* A field of a tuple identifier is a Python int or a Python str.  (A      *)
(* list-valued field takes the branch of a comma string and is left out.)  *)
(* The catalog behind qc.query is a fixed table; a query is the WHERE      *)
(* clause as four constraints, and its answer the matching rows in table   *)
(* order.                                                                  *)
(***************************************************************************)
FInt(n) == [t |-> "int", n |-> n, s |-> <<>>]
FStr(s) == [t |-> "str", n |-> 0, s |-> s]
FStar   == FStr(<<"*">>)

CNone           == [op |-> "none", vals |-> <<>>]
CEq(v)          == [op |-> "eq", vals |-> <<v>>]
CIn(vs)         == [op |-> "in", vals |-> vs]
CBetween(a, b)  == [op |-> "between", vals |-> <<a, b>>]
WhereOk(c)      == [ok |-> TRUE, c |-> c, exc |-> "none"]
WhereRaise(exc) == [ok |-> FALSE, c |-> CNone, exc |-> exc]

\* list(map(int, s.split(','))): the integers, or ValueError.
IntList(s) ==
    LET parts == Split(s, ",") IN
    IF \A i \in 1 .. Len(parts) : IntAccepts(parts[i])
    THEN WhereOk(CIn([i \in 1 .. Len(parts) |-> IntOf(parts[i])]))
    ELSE WhereRaise("ValueError")

\* The plate clause wp, and likewise the mjd clause wm.
PlateWhere(plate) ==
    IF plate.t = "int" THEN WhereOk(CEq(plate.n))
    ELSE IF plate.s = <<"*">> THEN WhereOk(CNone)
    ELSE IF Contains(plate.s, <<",">>) THEN IntList(plate.s)
    ELSE IF IntAccepts(plate.s) THEN WhereOk(CEq(IntOf(plate.s)))
    ELSE WhereRaise("ValueError")

\* The fiber clause wf.
FiberWhere(fiber) ==
    IF fiber.t = "int" THEN WhereOk(CEq(fiber.n))
    ELSE IF FindPositive(fiber.s, "-") \/ FindPositive(fiber.s, ":") THEN
        LET parts == Split(fiber.s, IF FindPositive(fiber.s, "-") THEN "-" ELSE ":") IN
        IF IntAccepts(parts[1]) /\ IntAccepts(parts[2])
        THEN WhereOk(CBetween(IntOf(parts[1]), IntOf(parts[2])))
        ELSE WhereRaise("ValueError")
    ELSE IF FindPositive(fiber.s, ",") THEN IntList(fiber.s)
    ELSE IF IsDigitStr(fiber.s) THEN WhereOk(CEq(IntOf(fiber.s)))
    ELSE WhereOk(CNone)

\* The run2d clause wr.  An int has no find(): AttributeError.
Run2dWhere(run2d) ==
    IF run2d.t = "str" /\ run2d.s = <<"*">> THEN WhereOk(CNone)
    ELSE IF run2d.t = "int" THEN WhereRaise("AttributeError")
    ELSE IF FindPositive(run2d.s, ",") THEN WhereOk(CIn(Split(run2d.s, ",")))
    ELSE WhereOk(CEq(run2d.s))

\* The rows of sdss_dr16.specobj: plate, mjd, fiberid, run2d, survey.
Row(p, m, f, r, s) == [plate |-> p, mjd |-> m, fiber |-> f, run2d |-> r, survey |-> s]
Sdss   == <<"s", "d", "s", "s">>
Segue1 == <<"s", "e", "g", "u", "e", "1">>
Boss   == <<"B", "O", "S", "S">>
Catalog ==
    << Row(7, 8, 1, <<"2", "6">>, Sdss),
       Row(7, 8, 2, <<"1", "0", "3">>, Segue1),
       Row(6, 8, 1, <<"2", "6">>, Boss),
       Row(7, 9, 1, <<"1", "0", "3">>, Sdss) >>

Satisfies(c, v) ==
    CASE c.op = "none"    -> TRUE
      [] c.op = "eq"      -> v = c.vals[1]
      [] c.op = "in"      -> \E i \in 1 .. Len(c.vals) : v = c.vals[i]
      [] c.op = "between" -> v >= c.vals[1] /\ v <= c.vals[2]

RowMatches(w, row) ==
    /\ Satisfies(w.wp, row.plate) /\ Satisfies(w.wm, row.mjd)
    /\ Satisfies(w.wf, row.fiber) /\ Satisfies(w.wr, row.run2d)

\* qc.query(sql=query, ...): the rows the WHERE clause selects.
CatalogQuery(w) == SelectSeq(Catalog, LAMBDA row : RowMatches(w, row))

LowerChar(c) ==
    CASE c = "B" -> "b" [] c = "O" -> "o" [] c = "S" -> "s" [] c = "R" -> "r"
      [] c = "D" -> "d" [] c = "E" -> "e" [] c = "L" -> "l" [] c = "I" -> "i"
      [] c = "M" -> "m" [] c = "T" -> "t" [] OTHER -> c
Lower(s) == [i \in 1 .. Len(s) |-> LowerChar(s[i])]

\* s = 'sdss' if s.startswith('segue') else s.lower()
SurveyName(s) ==
    IF StartsWith(s, <<"s", "e", "g", "u", "e">>) THEN Sdss ELSE Lower(s)

NoWhere == [wp |-> CNone, wm |-> CNone, wf |-> CNone, wr |-> CNone]

\* Whether _expandID refuses the clauses: "At least one of plate or mjd
\* must be specified" is raised when all four are None.
Refused(w) ==
    w.wp.op = "none" /\ w.wm.op = "none" /\ w.wf.op = "none" /\ w.wr.op = "none"

\* _expandID(plate, mjd, fiber, run2d): [tag, exc, queried, where, ids].
\* queried tells whether qc.query was called, where is its WHERE clause.
_expandID(plate, mjd, fiber, run2d) ==
    LET wp == PlateWhere(plate)
        wm == PlateWhere(mjd)
        wf == FiberWhere(fiber)
        wr == Run2dWhere(run2d)
        w  == [wp |-> wp.c, wm |-> wm.c, wf |-> wf.c, wr |-> wr.c]
        failed(exc) == [tag |-> "raise", exc |-> exc, queried |-> FALSE,
                        where |-> NoWhere, ids |-> <<>>]
    IN  IF ~wp.ok THEN failed(wp.exc)
        ELSE IF ~wm.ok THEN failed(wm.exc)
        ELSE IF ~wf.ok THEN failed(wf.exc)
        ELSE IF ~wr.ok THEN failed(wr.exc)
        ELSE IF Refused(w) THEN failed("Exception")
        ELSE LET rows == CatalogQuery(w) IN
             [tag |-> "ok", exc |-> "none", queried |-> TRUE, where |-> w,
              ids |-> [i \in 1 .. Len(rows) |->
                         Row(rows[i].plate, rows[i].mjd, rows[i].fiber,
                             rows[i].run2d, SurveyName(rows[i].survey))]]

\* The pieces of the text between the parentheses of a tuple, cut at the
\* commas that are outside quotes; cur is the piece being read.
RECURSIVE TupleItems(_, _, _)
TupleItems(s, inq, cur) ==
    IF s = <<>> THEN <<cur>>
    ELSE IF Head(s) = "'" THEN TupleItems(Tail(s), ~inq, Append(cur, Head(s)))
    ELSE IF Head(s) = "," /\ ~inq THEN <<cur>> \o TupleItems(Tail(s), inq, <<>>)
    ELSE TupleItems(Tail(s), inq, Append(cur, Head(s)))

\* One item of a tuple literal: a decimal int or a quoted str.
IsIntLiteral(p) == IsDigitStr(p) /\ (Len(p) = 1 \/ p[1] # "0")
IsStrLiteral(p) ==
    /\ Len(p) >= 2 /\ p[1] = "'" /\ p[Len(p)] = "'"
    /\ \A i \in 2 .. (Len(p) - 1) : p[i] # "'"
ItemValue(p) ==
    IF IsIntLiteral(p) THEN FInt(IntOf(p)) ELSE FStr(SubSeq(p, 2, Len(p) - 1))

\* v = eval(s) for a token s that starts with '(':  [ok, exc, v], v the
\* sequence of the elements of the value (of a tuple its fields; of a
\* parenthesized str its characters).  A parenthesized int has no len().
EvalTuple(s) ==
    LET bad(exc) == [ok |-> FALSE, exc |-> exc, v |-> <<>>]
        inner == SubSeq(s, 2, Len(s) - 1)
        items == TupleItems(inner, FALSE, <<>>)
        n     == Len(items)
        kept  == IF n >= 2 /\ items[n] = <<>> THEN SubSeq(items, 1, n - 1) ELSE items
    IN  IF Len(s) < 2 \/ s[Len(s)] # ")" THEN bad("SyntaxError")
        ELSE IF inner = <<>> THEN [ok |-> TRUE, exc |-> "none", v |-> <<>>]
        ELSE IF \E i \in 1 .. Len(kept) : ~(IsIntLiteral(kept[i]) \/ IsStrLiteral(kept[i]))
             THEN bad("SyntaxError")
        ELSE IF n = 1 /\ IsIntLiteral(items[1]) THEN bad("TypeError")
        ELSE IF n = 1 THEN
             [ok |-> TRUE, exc |-> "none",
              v |-> [i \in 1 .. (Len(items[1]) - 2) |-> FStr(<<items[1][i + 1]>>)]]
        ELSE [ok |-> TRUE, exc |-> "none",
              v |-> [i \in 1 .. Len(kept) |-> ItemValue(kept[i])]]

\* An element of the list expandIDList returns: a packed id (np.uint64) or
\* a (plate, mjd, fiber, run2d, survey) tuple.
NoRow       == Row(0, 0, 0, <<>>, <<>>)
IdElem(n)   == [k |-> "id", n |-> n, row |-> NoRow]
RowElem(r)  == [k |-> "row", n |-> 0, row |-> r]

\* A record of one _expandID call: its arguments and what became of it.
CallOf(plate, mjd, fiber, run2d, r) ==
    [plate |-> plate, mjd |-> mjd, fiber |-> fiber, run2d |-> run2d,
     tag |-> r.tag, queried |-> r.queried, where |-> r.where]

Expanded(ids, calls)    == [tag |-> "ok", exc |-> "none", ids |-> ids, calls |-> calls]
ExpandRaised(exc, calls) == [tag |-> "raise", exc |-> exc, ids |-> <<>>, calls |-> calls]

\* The loop over the tokens of a list that holds at least one tuple; ids and
\* calls are what the loop has gathered so far.
RECURSIVE ExpandLoop(_, _, _)
ExpandLoop(toks, ids, calls) ==
    IF toks = <<>> THEN Expanded(ids, calls)
    ELSE LET s == Head(toks) IN
         IF s = <<>> THEN ExpandRaised("IndexError", calls)          \* s[0]
         ELSE IF s[1] = "(" THEN
             LET e == EvalTuple(s) IN
             IF ~e.ok THEN ExpandRaised(e.exc, calls)
             ELSE IF Len(e.v) = 0 THEN ExpandRaised("IndexError", calls)   \* v[0]
             ELSE LET v  == e.v
                      a1 == v[1]
                      a2 == IF Len(v) >= 2 THEN v[2] ELSE FStar
                      a3 == IF Len(v) >= 3 THEN v[3] ELSE FStar
                      a4 == IF Len(v) >= 4 THEN v[4] ELSE FStar
                      r  == _expandID(a1, a2, a3, a4)
                      c  == Append(calls, CallOf(a1, a2, a3, a4, r))
                  IN  IF r.tag = "raise" THEN ExpandRaised(r.exc, c)
                      ELSE ExpandLoop(Tail(toks),
                                      ids \o [i \in 1 .. Len(r.ids) |-> RowElem(r.ids[i])],
                                      c)
         ELSE IF IsDigitStr(s) THEN
             ExpandLoop(Tail(toks), Append(ids, IdElem(IntOf(s))), calls)
         ELSE ExpandLoop(Tail(toks), ids, calls)

\* The tokens expandIDList cuts the wire string into.
IdTokens(id_list) ==
    LET s0 == IF id_list[1] = "["
              THEN Strip(SubSeq(id_list, 2, Len(id_list) - 1)) ELSE id_list
        s1 == IF Contains(s0, <<"(">>)
              THEN Replace(Replace(Replace(Replace(s0, <<" ">>, <<>>),
                                           <<",", "(">>, <<" ", "(">>),
                                   <<")", ",">>, <<")", " ">>),
                           <<",", "(">>, <<" ", "(">>)
              ELSE Replace(Replace(Replace(Replace(Replace(s0, <<"\n">>, <<" ">>),
                                                   <<" ", " ">>, <<" ">>),
                                           <<" ">>, <<",">>),
                                   <<" ">>, <<>>),
                           <<",", ",">>, <<",">>)
    IN  IF Contains(s1, <<"(">>) THEN Split(s1, " ")
        ELSE IF Contains(s1, <<"'">>) THEN Split(Replace(s1, <<"'">>, <<>>), ",")
        ELSE Split(s1, ",")

\* expandIDList(id_list): [tag, exc, ids, calls].
expandIDList(id_list) ==
    IF id_list = <<>> THEN ExpandRaised("IndexError", <<>>)          \* id_list[0]
    ELSE LET toks == IdTokens(id_list) IN
         IF \A i \in 1 .. Len(toks) : IsDigitStr(toks[i])
         THEN Expanded([i \in 1 .. Len(toks) |-> IdElem(IntOf(toks[i]))], <<>>)
         ELSE IF \E i \in 1 .. Len(toks) : StartsWith(toks[i], <<"(">>)
         THEN ExpandLoop(toks, <<>>, <<>>)
         ELSE ExpandRaised("Exception", <<>>)

(***************************************************************************)
(* The catalog query of the SDSS service (src/svc_sdss.py: query,          *)
(* toSigned).                                                              *)
(*                                                                         *)
(* A Python int is kept as its two's-complement form: low, the bits 0..63, *)
(* and high, the bit that repeats from position 64 upward (1 for a         *)
(* negative number); its value is ToNat(low) - high * 2^64.                *)
(***************************************************************************)
PyInt(high, low) == [high |-> high, low |-> low]
PyAnd(a, b) == PyInt(IF a.high = 1 /\ b.high = 1 THEN 1 ELSE 0, And64(a.low, b.low))
PyOr(a, b)  == PyInt(IF a.high = 1 \/ b.high = 1 THEN 1 ELSE 0, Or64(a.low, b.low))
PyNot(a)    == PyInt(1 - a.high, [i \in BitIdx |-> 1 - a.low[i]])
PyTrue(a)   == a.high = 1 \/ \E i \in BitIdx : a.low[i] = 1

\* (2 ** bitLength) - 1 and 1 << (bitLength - 1), for bitLength <= 64.
MaskOf(bitLength) == PyInt(0, [i \in BitIdx |-> IF i < bitLength THEN 1 ELSE 0])
TopBitOf(bitLength) == PyInt(0, [i \in BitIdx |-> IF i = bitLength - 1 THEN 1 ELSE 0])

\* toSigned without the test of the top bit.
toSignedMasked(number, bitLength) == PyAnd(PyInt(0, number), MaskOf(bitLength))

\* toSigned(number, bitLength) for a np.uint64 number.
toSigned(number, bitLength) ==
    LET mask == MaskOf(bitLength)
        n    == PyInt(0, number)
    IN  IF PyTrue(PyAnd(n, TopBitOf(bitLength)))
        THEN PyOr(n, PyNot(mask))
        ELSE PyAnd(n, mask)

\* np.uint64(s) for a str s: [ok, exc, l], l the four 16-bit limbs.  One
\* step takes the limbs l to l * 10 + d.
Limb == Pow2(16)
MulAdd10(l, d) ==
    LET t4 == l[4] * 10 + d
        t3 == l[3] * 10 + (t4 \div Limb)
        t2 == l[2] * 10 + (t3 \div Limb)
        t1 == l[1] * 10 + (t2 \div Limb)
    IN  [over |-> t1 >= Limb, l |-> <<t1 % Limb, t2 % Limb, t3 % Limb, t4 % Limb>>]
RECURSIVE Uint64Loop(_, _)
Uint64Loop(s, l) ==
    IF s = <<>> THEN [ok |-> TRUE, exc |-> "none", l |-> l]
    ELSE LET m == MulAdd10(l, DigitVal(Head(s))) IN
         IF m.over THEN [ok |-> FALSE, exc |-> "OverflowError", l |-> l]
         ELSE Uint64Loop(Tail(s), m.l)
Uint64Of(s) ==
    IF ~IsDigitStr(s) THEN [ok |-> FALSE, exc |-> "ValueError", l |-> <<0, 0, 0, 0>>]
    ELSE Uint64Loop(s, <<0, 0, 0, 0>>)

sdss_id_main == <<"s", "p", "e", "c", "o", "b", "j", "i", "d">>
NoneStr      == <<"N", "o", "n", "e">>
OrderStr     == <<"o", "r", "d", "e", "r">>
LimitStr     == <<"l", "i", "m", "i", "t">>

\* x in [None, 'None', '']
IsNone(x) == x = <<>> \/ x = NoneStr

\* An SQL statement: the projection, the table, the word before the
\* condition, and the condition: either "<column> = <key>" or free text.
NoKey == [high |-> 0, l |-> <<0, 0, 0, 0>>]
KeyOf(v) == [high |-> v.high, l |-> Limbs(v.low)]
SqlById(fields, catalog, column, key) ==
    [select |-> fields, from |-> catalog, word |-> "WHERE", column |-> column,
     key |-> key, cond |-> <<>>]
SqlByCond(fields, catalog, word, cond) ==
    [select |-> fields, from |-> catalog, word |-> word, column |-> <<>>,
     key |-> NoKey, cond |-> cond]
NoSql == SqlByCond(<<>>, <<>>, "", <<>>)

\* sdssService.query(id, fields, catalog, cond): [ok, exc, sql], sql the
\* statement given to qc.query.
query(id, fields, catalog, cond) ==
    LET flds == IF IsNone(fields) THEN sdss_id_main ELSE fields IN
    IF ~IsNone(id)
    THEN LET n == Uint64Of(id) IN
         IF ~n.ok THEN [ok |-> FALSE, exc |-> n.exc, sql |-> NoSql]
         ELSE [ok |-> TRUE, exc |-> "none",
               sql |-> SqlById(flds, catalog, sdss_id_main,
                               KeyOf(toSigned(OfLimbs(n.l), 64)))]
    ELSE LET c5    == Lower(SubSeq(Strip(cond), 1, Min(5, Len(Strip(cond)))))
             where == IF c5 = OrderStr \/ c5 = LimitStr THEN "" ELSE "WHERE"
         IN  [ok |-> TRUE, exc |-> "none",
              sql |-> IF Contains(flds, sdss_id_main)
                      THEN SqlByCond(flds, catalog, where, cond)
                      ELSE SqlByCond(sdss_id_main \o <<",">> \o flds, catalog, where, cond)]

(***************************************************************************)
(* State.                                                                  *)
(***************************************************************************)
VARIABLES
    cflow,      \* codec: "pack" (pack, then unpack the result), "unpack"
                \* (unpack an identifier, then repack its fields), or "off"
    cpc,        \* codec: how far the flow has come
    cArgs,      \* codec: the arguments of the pack_specobjid call
    cX,         \* codec: the identifier handed to unpack_specobjid
    cPacked,    \* codec: what pack_specobjid returned or raised
    cUnpacked,  \* codec: the record unpack_specobjid returned
    epc,        \* expansion: "start", "done", or "off"
    eTokens,    \* expansion: the identifiers the client put in the list
    eWire,      \* expansion: the id_list string on the wire
    eOut,       \* expansion: what expandIDList returned or raised
    gpc,        \* getSpec: "start", "loop", "done", or "off"
    gStore,     \* getSpec: the spectrum files, gStore[id] the file of id
    gParams,    \* getSpec: the form fields of the request
    gSpan,      \* getSpec: w0, w1 and align as the handler holds them
    gIds,       \* getSpec: the expanded id list
    gRes,       \* getSpec: res, the rows stacked so far
    gResp,      \* getSpec: the response
    spc,        \* server: "start", "done", or "off"
    sReq,       \* server: the request, its endpoint and its parameters
    sResp,      \* server: the response to it
    sLog,       \* server: what the handler touched, in order
    sSql,       \* server: the statement given to the catalog
    sImg,       \* server: the image stackedImage made
    lTask,      \* event loop: each request's endpoint and how far it has come
    lRun,       \* event loop: the request whose handler holds the loop, or 0
    kProfile,   \* client: svc_profile of each specClient object
    kContext,   \* client: svc_context of each specClient object
    kCall,      \* client: the last call made
    kRet,       \* client: what the last call returned or raised
    kLastSet,   \* client: the context of the last set_context that returned
    kResp,      \* client: the server's response to the last getSpec post
    fpc,        \* locator: "start", "done", or "off"
    fDisk,      \* locator: the files that exist
    fId,        \* locator: the identifier handed to _idToPath
    fExtn,      \* locator: the extension asked for
    fRes,       \* locator: the path returned, or the exception
    ppc,        \* process: "run" or "off"
    pFlag,      \* process: the module's debug flag
    pSvc,       \* process: debug and verbose of each service object
    pCount,     \* process: the requests served so far, by endpoint
    pResp       \* process: the last response

codecVars  == <<cflow, cpc, cArgs, cX, cPacked, cUnpacked>>
expandVars == <<epc, eTokens, eWire, eOut>>
getVars    == <<gpc, gStore, gParams, gSpan, gIds, gRes, gResp>>
serverVars == <<spc, sReq, sResp, sLog, sSql, sImg>>
loopVars   == <<lTask, lRun>>
clientVars == <<kProfile, kContext, kCall, kRet, kLastSet, kResp>>
locateVars == <<fpc, fDisk, fId, fExtn, fRes>>
procVars   == <<ppc, pFlag, pSvc, pCount, pResp>>

Args(plate, mjd, fiber, run2d) ==
    [plate |-> plate, mjd |-> mjd, fiber |-> fiber, run2d |-> run2d]
NoArgs   == Args(0, 0, 0, RunInt(0))
NoFields == [plate |-> 0, fiber |-> 0, mjd |-> 0, run2d |-> <<>>]

(***************************************************************************)
(* The inputs the codec is exercised on: the ends of every field's range,  *)
(* the first value past each end, the vectors of the documentation and of  *)
(* tests/z_sdss.py, and run2d arguments of every kind.  Version strings    *)
(* have N >= 5 (a smaller N makes the code negative, which np.uint64       *)
(* rejects or wraps depending on the numpy release).                       *)
(***************************************************************************)
PlateInputs == {1, 1963, 4055, 16383, 16384}
MjdInputs   == {408, 50000, 50001, 54331, 66383, 66384}
FiberInputs == {1, 19, 4095, 4096, 55359}

Run2dInts == {0, 26, 103, 104, 700, 16383, 16384}
VersionTriples ==
    {<<5, 0, 0>>, <<5, 0, 26>>, <<5, 1, 3>>, <<5, 1, 4>>, <<5, 7, 0>>,
     <<5, 10, 0>>, <<5, 13, 0>>, <<5, 99, 99>>, <<6, 0, 0>>, <<6, 63, 83>>,
     <<6, 63, 84>>, <<6, 99, 99>>}
OddStrings ==
    {<<>>,                                              \* ''
     <<"a", "b", "c">>,                                 \* 'abc'
     <<"v", "5", "_", "7">>,                            \* 'v5_7'
     <<"v", "5", "_", "0", "7", "_", "0">>,             \* 'v5_07_0'
     <<"v", "5", "_", "7", "_", "0", "x">>}             \* 'v5_7_0x'
Run2dStrings ==
    {DecStr(n) : n \in {26, 103, 104}}
        \cup {VersionFormat(t[1], t[2], t[3]) : t \in VersionTriples}
        \cup OddStrings
Run2dInputs == {RunInt(n) : n \in Run2dInts} \cup {RunStr(s) : s \in Run2dStrings}

PackInputs ==
    {Args(p, m, f, r) : p \in PlateInputs, m \in MjdInputs,
                        f \in FiberInputs, r \in Run2dInputs}

\* The identifier whose five bit-fields hold the given values.
FieldBits(v, i, lo, width) ==
    IF i >= lo /\ i < lo + width THEN (v \div Pow2(i - lo)) % 2 ELSE 0
MkId(plate, fiber, mjd, run2d, index) ==
    [i \in BitIdx |-> FieldBits(plate, i, 50, 14) + FieldBits(fiber, i, 38, 12)
                      + FieldBits(mjd, i, 24, 14) + FieldBits(run2d, i, 10, 14)
                      + FieldBits(index, i, 0, 10)]

IdInputs ==
    {Limbs(MkId(p, f, m, r, x)) : p \in {1, 4055, 16383}, f \in {1, 408, 4095},
                           m \in {0, 1, 5359, 16383},
                           r \in {0, 26, 103, 700, 1000, 1300, 16383},
                           x \in {0, 1}}

\* How a caller hands the fields of an unpacked record back to
\* pack_specobjid: element by element as Python int and str, or as the
\* record's columns (arrays), as tests/z_sdss.py does.
CallStyles == {"scalar", "array"}

InitCodecVars ==
    /\ cflow \in {"pack", "unpack"}
    /\ cPacked = NoResult
    /\ cUnpacked = NoFields
    /\ \/ cflow = "pack" /\ cpc = "start" /\ cArgs \in PackInputs /\ cX = Limbs(U64(0))
       \/ cflow = "unpack" /\ cpc = "id" /\ cArgs = NoArgs /\ cX \in IdInputs

CodecOff ==
    /\ cflow = "off" /\ cpc = "off" /\ cArgs = NoArgs /\ cX = Limbs(U64(0))
    /\ cPacked = NoResult /\ cUnpacked = NoFields

\* id = pack_specobjid(plate, mjd, fiber, run2d)
Pack ==
    /\ cflow = "pack" /\ cpc = "start"
    /\ LET r == pack_specobjid(cArgs.plate, cArgs.mjd, cArgs.fiber, cArgs.run2d) IN
       /\ cPacked' = r
       /\ cX' = r.id
       /\ cpc' = IF r.tag = "ok" THEN "id" ELSE "raised"
    /\ UNCHANGED <<cflow, cArgs, cUnpacked>>
    /\ UNCHANGED expandVars
    /\ UNCHANGED <<getVars, serverVars, loopVars, clientVars, locateVars, procVars>>

\* u = unpack_specobjid(id)
Unpack ==
    /\ cpc = "id"
    /\ cUnpacked' = unpack_specobjid(OfLimbs(cX))
    /\ cpc' = IF cflow = "pack" THEN "done" ELSE "unpacked"
    /\ UNCHANGED <<cflow, cArgs, cX, cPacked>>
    /\ UNCHANGED expandVars
    /\ UNCHANGED <<getVars, serverVars, loopVars, clientVars, locateVars, procVars>>

\* id2 = pack_specobjid(u.plate, u.mjd, u.fiber, u.run2d)
Repack ==
    /\ cflow = "unpack" /\ cpc = "unpacked"
    /\ \E style \in CallStyles :
         LET a == Args(cUnpacked.plate, cUnpacked.mjd, cUnpacked.fiber,
                       IF style = "scalar" THEN RunStr(cUnpacked.run2d)
                                           ELSE RunArr(cUnpacked.run2d))
         IN  /\ cArgs' = a
             /\ cPacked' = pack_specobjid(a.plate, a.mjd, a.fiber, a.run2d)
    /\ cpc' = "done"
    /\ UNCHANGED <<cflow, cX, cUnpacked>>
    /\ UNCHANGED expandVars
    /\ UNCHANGED <<getVars, serverVars, loopVars, clientVars, locateVars, procVars>>

(***************************************************************************)
(* The id expansion as a state machine: a client writes a list of          *)
(* identifiers on the wire and the service expands it.                     *)
(***************************************************************************)
TokId(n)     == [k |-> "id", n |-> n, f |-> <<>>]
TokTuple(f)  == [k |-> "tuple", n |-> 0, f |-> f]

MaxTokens == 3

TokenInputs ==
    {TokId(71), TokId(72),
     TokTuple(<<FInt(7), FInt(8)>>),                              \* (7, 8)
     TokTuple(<<FStar, FStar, FInt(1)>>),                         \* ('*', '*', 1)
     TokTuple(<<FStar, FStar, FStar, FStr(<<"2", "6">>)>>),       \* ('*', '*', '*', '26')
     TokTuple(<<FInt(7), FInt(8), FInt(1), FStr(<<"2", "6">>)>>), \* (7, 8, 1, '26')
     TokTuple(<<FInt(7), FInt(8), FInt(3), FStr(<<"2", "6">>)>>), \* (7, 8, 3, '26')
     TokTuple(<<FStr(<<"6", ",", "7">>), FStar>>),                \* ('6,7', '*')
     TokTuple(<<FStar, FStar>>)}                                  \* ('*', '*')

TokenLists ==
    UNION {[1 .. n -> TokenInputs] : n \in 1 .. MaxTokens}

\* How the list is written: as Python prints a list ("[a, b]", ", " inside
\* tuples), or bare ("a,b", no blanks, no brackets).
WireFormats == {"list", "bare"}

RenderField(f) == IF f.t = "int" THEN DecStr(f.n) ELSE <<"'">> \o f.s \o <<"'">>
RenderToken(tok, sep) ==
    IF tok.k = "id" THEN DecStr(tok.n)
    ELSE <<"(">> \o Join([i \in 1 .. Len(tok.f) |-> RenderField(tok.f[i])], sep)
             \o (IF Len(tok.f) = 1 THEN <<",">> ELSE <<>>) \o <<")">>
RenderList(toks, fmt) ==
    LET sep  == IF fmt = "list" THEN <<",", " ">> ELSE <<",">>
        body == Join([i \in 1 .. Len(toks) |-> RenderToken(toks[i], sep)], sep)
    IN  IF fmt = "list" THEN <<"[">> \o body \o <<"]">> ELSE body

NoExpansion == [tag |-> "none", exc |-> "none", ids |-> <<>>, calls |-> <<>>]

InitExpandVars ==
    /\ epc = "start"
    /\ eTokens \in TokenLists
    /\ \E fmt \in WireFormats : eWire = RenderList(eTokens, fmt)
    /\ eOut = NoExpansion

ExpandOff ==
    epc = "off" /\ eTokens = <<>> /\ eWire = <<>> /\ eOut = NoExpansion

\* ids = svc.expandIDList(id_list)
ExpandIDList ==
    /\ epc = "start"
    /\ eOut' = expandIDList(eWire)
    /\ epc' = "done"
    /\ UNCHANGED <<eTokens, eWire>>
    /\ UNCHANGED codecVars
    /\ UNCHANGED <<getVars, serverVars, loopVars, clientVars, locateVars, procVars>>

(***************************************************************************)
(* getSpec and listSpan (src/svr_async.py).                                *)
(*                                                                         *)
(* loglam values are counted in grid units, so they are integers; 0 is the *)
(* "not given" value of the w0 and w1 fields and no sample is 0.  A        *)
(* spectrum file is [lo, n, d]: n samples, the first at lo, d apart.  A    *)
(* row of the result is [len, lo, hi]: its length and the first and last   *)
(* value of its loglam column.                                             *)
(***************************************************************************)
MaxLen     == 3
MaxSpectra == 2

Spectrum(lo, n, d) == [lo |-> lo, n |-> n, d |-> d]
\* The files on disk: at least two samples each.
Spectra ==
    {Spectrum(lo, n, 1) : lo \in {1, 2}, n \in 2 .. MaxLen} \cup {Spectrum(1, 2, 2)}
Stores  == UNION {[1 .. k -> Spectra] : k \in 1 .. MaxSpectra}

\* The w0 and w1 fields of a request: 0.0 and 0.0, or a span of the
\* caller's own.
SuppliedSpans == {<<0, 0>>, <<2, 3>>}

First(sp) == sp.lo                          \* data['loglam'][0]
Last(sp)  == sp.lo + (sp.n - 1) * sp.d      \* data['loglam'][-1]

RowOf(len, lo, hi) == [len |-> len, lo |-> lo, hi |-> hi]

\* _listSpan(svc, ids) over the files of the store: <<w0, w1>>.
SpanStartW0 == 100000
SpanStartW1 == -99999
RECURSIVE SpanLoop(_, _, _, _)
SpanLoop(store, ids, w0, w1) ==
    IF ids = <<>> THEN <<w0, w1>>
    ELSE LET data == store[Head(ids)] IN
         SpanLoop(store, Tail(ids), Min(w0, First(data)), Max(w1, Last(data)))
_listSpan(store, ids) == SpanLoop(store, ids, SpanStartW0, SpanStartW1)

\* int(np.around(num / den)) for num >= 0, den > 0.  The quotient is a
\* float: where the exact quotient lies halfway between two integers the
\* float may fall on either side of the half, or on it (and then the even
\* one is taken), so both neighbours are possible.
Around(num, den) ==
    LET q == num \div den
        r == num % den
    IN  IF 2 * r < den THEN {q}
        ELSE IF 2 * r > den THEN {q + 1}
        ELSE {q, q + 1}

\* The pads of one spectrum: disp = (wmax - wmin) / len, so an offset x
\* is x * len / (wmax - wmin) samples.  With wmax = wmin the division is
\* by 0.0 and int() raises: no pads.
Lpads(data, w0) ==
    IF Last(data) = First(data) THEN {}
    ELSE Around(Max(First(data) - w0, 0) * data.n, Last(data) - First(data))
Rpads(data, w1) ==
    IF Last(data) = First(data) THEN {}
    ELSE Around(Max(w1 - Last(data), 0) * data.n, Last(data) - First(data))

\* Padding without the patch of the wavelength array: the pads are zeros.
AlignedUnpatched(data, w0, w1, lpad, rpad) ==
    RowOf(data.n + lpad + rpad,
          IF lpad > 0 THEN 0 ELSE First(data), IF rpad > 0 THEN 0 ELSE Last(data))

\* f for one spectrum when aligning: the data itself when no pad is needed,
\* else the padded data with loglam = np.linspace(w0, w1, len(f)).
Aligned(data, w0, w1, lpad, rpad) ==
    IF lpad = 0 /\ rpad = 0 THEN RowOf(data.n, First(data), Last(data))
    ELSE RowOf(data.n + lpad + rpad, w0, w1)

\* The ids of a request: packed ids, written as Python prints the list.
MaxIds     == 2
IdSeqs(k)  == UNION {[1 .. n -> 1 .. k] : n \in 1 .. MaxIds}
IdList(seq) == RenderList([i \in 1 .. Len(seq) |-> TokId(seq[i])], "list")
IdsOf(out) == [i \in 1 .. Len(out.ids) |-> out.ids[i].n]

\* Registry.services, and _getSvc, which gives None for any other name.
Contexts == {"default", "sdss_dr16"}
UnknownContext == "nosuch"

Params(id_list, values, fmt, align, w0, w1, context) ==
    [id_list |-> id_list, values |-> values, format |-> fmt, align |-> align,
     w0 |-> w0, w1 |-> w1, context |-> context]
NoParams == Params(<<>>, "all", "numpy", FALSE, 0, 0, "default")
NoSpan   == [w0 |-> 0, w1 |-> 0, align |-> FALSE]
NoResponse      == [kind |-> "none", rows |-> <<>>]
Response(kind)  == [kind |-> kind, rows |-> <<>>]
Body(rows)      == [kind |-> "body", rows |-> rows]

\* A request as a caller first makes it.  "absent" is a request without
\* the 'values' field.
InitGetVars ==
    /\ gpc = "start"
    /\ gStore \in Stores
    /\ \E values \in {"all", "absent"}, fmt \in {"numpy", "fits"}, align \in BOOLEAN,
          seq \in IdSeqs(Len(gStore)), w \in SuppliedSpans,
          context \in {"default", UnknownContext} :
           gParams = Params(IdList(seq), values, fmt, align, w[1], w[2], context)
    /\ gSpan = NoSpan
    /\ gIds = <<>>
    /\ gRes = <<>>
    /\ gResp = NoResponse

GetOff ==
    /\ gpc = "off" /\ gStore = <<>> /\ gParams = NoParams /\ gSpan = NoSpan
    /\ gIds = <<>> /\ gRes = <<>> /\ gResp = NoResponse

\* POST /spec/listSpan, and the client putting the answer in the w0 and w1
\* fields of the getSpec request it sends next.
ListSpan ==
    /\ gpc = "start"
    /\ gParams.w0 = 0 /\ gParams.w1 = 0
    /\ gParams.context \in Contexts
    /\ \E out \in {expandIDList(gParams.id_list)} :
       /\ out.tag = "ok"
       /\ \E w \in {_listSpan(gStore, IdsOf(out))} :
              gParams' = [gParams EXCEPT !.w0 = w[1], !.w1 = w[2]]
    /\ UNCHANGED <<gpc, gStore, gSpan, gIds, gRes, gResp>>
    /\ UNCHANGED <<codecVars, expandVars, serverVars, loopVars, clientVars, locateVars, procVars>>

\* POST /spec/getSpec up to the loop over the ids.
GetSpecStart ==
    /\ gpc = "start"
    /\ \/ /\ gParams.values = "absent"
          /\ gResp' = Response("Param Error")
          /\ gpc' = "done"
          /\ UNCHANGED <<gSpan, gIds>>
       \/ /\ gParams.values # "absent"
          /\ gParams.context \notin Contexts          \* svc.debug = debug on None
          /\ gResp' = Response("raised")
          /\ gpc' = "done"
          /\ UNCHANGED <<gSpan, gIds>>
       \/ /\ gParams.values # "absent"
          /\ gParams.context \in Contexts
          /\ \E out \in {expandIDList(gParams.id_list)} :
                \/ /\ out.tag = "raise"
                   /\ gResp' = Response("raised")
                   /\ gpc' = "done"
                   /\ UNCHANGED <<gSpan, gIds>>
                \/ /\ out.tag = "ok"
                   /\ \E ids \in {IdsOf(out)} :
                      \E w \in {IF gParams.w0 = 0 /\ gParams.w1 = 0 /\ gParams.align
                                THEN _listSpan(gStore, ids)
                                ELSE <<gParams.w0, gParams.w1>>} :
                         /\ gIds' = ids
                         /\ gSpan' = [w0 |-> w[1], w1 |-> w[2], align |-> (w[1] # w[2])]
                         /\ gpc' = "loop"
                         /\ UNCHANGED gResp
    /\ UNCHANGED <<gStore, gParams, gRes>>
    /\ UNCHANGED <<codecVars, expandVars, serverVars, loopVars, clientVars, locateVars, procVars>>

\* "for id in ids": the id taken when k rows are done.
NextIdReversed(ids, k) == ids[Len(ids) - k]
NextId(ids, k) == ids[k + 1]

\* One pass of "for id in ids".  np.vstack raises ValueError when the new
\* row is not as long as the rows stacked so far.
GetSpecRow ==
    /\ gpc = "loop"
    /\ Len(gRes) < Len(gIds)
    /\ LET data == gStore[NextId(gIds, Len(gRes))] IN
       IF gParams.format = "fits"
       THEN /\ gResp' = Response("file")
            /\ gpc' = "done"
            /\ UNCHANGED gRes
       ELSE IF gSpan.align /\ Last(data) = First(data)
       THEN /\ gResp' = Response("raised")
            /\ gpc' = "done"
            /\ UNCHANGED gRes
       ELSE \E lpad \in (IF gSpan.align THEN Lpads(data, gSpan.w0) ELSE {0}),
               rpad \in (IF gSpan.align THEN Rpads(data, gSpan.w1) ELSE {0}) :
            LET f == Aligned(data, gSpan.w0, gSpan.w1, lpad, rpad) IN
            IF gRes # <<>> /\ f.len # gRes[1].len
            THEN /\ gResp' = Response("raised")
                 /\ gpc' = "done"
                 /\ UNCHANGED gRes
            ELSE /\ gRes' = Append(gRes, f)
                 /\ UNCHANGED <<gpc, gResp>>
    /\ UNCHANGED <<gStore, gParams, gSpan, gIds>>
    /\ UNCHANGED <<codecVars, expandVars, serverVars, loopVars, clientVars, locateVars, procVars>>

\* After the loop: np.save of res and the response.
GetSpecFinish ==
    /\ gpc = "loop"
    /\ Len(gRes) = Len(gIds)
    /\ gResp' = Body(gRes)
    /\ gpc' = "done"
    /\ UNCHANGED <<gStore, gParams, gSpan, gIds, gRes>>
    /\ UNCHANGED <<codecVars, expandVars, serverVars, loopVars, clientVars, locateVars, procVars>>

(***************************************************************************)
(* The endpoints of the server (src/svr_async.py).  A request is its       *)
(* endpoint and the parameters it carries, a record; a parameter that was  *)
(* not sent is not a field of the record.                                  *)
(***************************************************************************)
Request(endpoint, params) == [endpoint |-> endpoint, params |-> params]
Without(params, name) == [k \in (DOMAIN params) \ {name} |-> params[k]]
Missing(params, names) == \E k \in names : k \notin DOMAIN params

\* A response: a text with the word it begins with, a body of bytes, or
\* none because the exception left the handler ("raised").
Text(head)     == [kind |-> "text", head |-> head]
Bytes          == [kind |-> "body", head |-> ""]
Escaped(exc)   == [kind |-> "raised", head |-> exc]
NoReply        == [kind |-> "none", head |-> ""]
ParamError     == Text("Param Error:")

QueryParams ==
    {"id", "fields", "catalog", "cond", "context", "profile", "debug", "verbose"}
QueryIds ==
    {<<>>, NoneStr, <<"1">>,
     <<"2", "2", "1", "0", "1", "4", "6", "8", "1", "2", "4", "7", "4", "5", "3", "0", "8", "1", "6">>,
     <<"9", "2", "2", "3", "3", "7", "2", "0", "3", "6", "8", "5", "4", "7", "7", "5", "8", "0", "7">>,
     <<"9", "2", "2", "3", "3", "7", "2", "0", "3", "6", "8", "5", "4", "7", "7", "5", "8", "0", "8">>,
     <<"1", "8", "4", "4", "6", "7", "4", "4", "0", "6", "6", "3", "2", "8", "2", "9", "3", "3", "7", "6">>,
     <<"1", "8", "4", "4", "6", "7", "4", "4", "0", "7", "3", "7", "0", "9", "5", "5", "1", "6", "1", "5">>}
QueryFields ==
    {<<>>, NoneStr, <<"r", "a">>, sdss_id_main \o <<",", "r", "a">>,
     <<"r", "a", ",">> \o sdss_id_main}
QueryConds ==
    {<<"r", "a", ">", "1">>, <<"L", "I", "M", "I", "T", " ", "1">>,
     <<" ", "o", "r", "d", "e", "r", " ", "b", "y", " ", "r", "a">>}
QueryRequest(id, fields, cond, context) ==
    [id |-> id, fields |-> fields, catalog |-> "sdss_dr16.specobj", cond |-> cond,
     context |-> context, profile |-> "default", debug |-> "False",
     verbose |-> "False"]
QueryRequests ==
    {Request("query", QueryRequest(id, fields, cond, context)) :
        id \in QueryIds, fields \in QueryFields, cond \in QueryConds,
        context \in Contexts \cup {UnknownContext}}
    \cup {Request("query", Without(QueryRequest(<<"1">>, <<>>, <<>>, "default"), k)) :
             k \in QueryParams}

\* GET /spec/query
Query ==
    /\ spc = "start"
    /\ sReq.endpoint = "query"
    /\ spc' = "done"
    /\ UNCHANGED sImg
    /\ \E p \in {sReq.params} :
       \/ /\ Missing(p, QueryParams)
          /\ sResp' = ParamError
          /\ UNCHANGED <<sLog, sSql>>
       \/ /\ ~Missing(p, QueryParams)
          /\ p.context \notin Contexts
          /\ sResp' = Escaped("AttributeError")       \* svc.debug = debug on None
          /\ sLog' = Append(sLog, "getSvc")
          /\ UNCHANGED sSql
       \/ /\ ~Missing(p, QueryParams)
          /\ p.context \in Contexts
          /\ \E r \in {query(p.id, p.fields, p.catalog, p.cond)} :
             \/ /\ ~r.ok
                /\ sResp' = Escaped(r.exc)
                /\ sLog' = Append(sLog, "getSvc")
                /\ UNCHANGED sSql
             \/ /\ r.ok
                /\ sResp' = Text("csv")
                /\ sLog' = sLog \o <<"getSvc", "catalog">>
                /\ sSql' = r.sql
    /\ UNCHANGED sReq
    /\ UNCHANGED <<codecVars, expandVars, getVars, loopVars, clientVars, locateVars, procVars>>

\* The config file: the names under config['profiles'] and
\* config['contexts'].
ConfigProfiles == {"default", "dev"}
ConfigContexts == {"default", "sdss_dr16"}

\* What a handler gives back that is not a response: a str, or None.
NotResponse(what) == [kind |-> "notresponse", head |-> what]

NoneName(x) == x = "" \/ x = "none" \/ x = "None"

ListRequests(endpoint, name) ==
    {Request(endpoint, [k \in {name, "format"} |-> IF k = "format" THEN fmt ELSE v]) :
        v \in {"", "default", "nosuch"}, fmt \in {"csv", "text", "json"}}
    \cup {Request(endpoint, [k \in {name} |-> "default"]),
          Request(endpoint, [k \in {"format"} |-> "text"])}

\* GET /spec/profiles
Profiles ==
    /\ spc = "start"
    /\ sReq.endpoint = "profiles"
    /\ spc' = "done"
    /\ UNCHANGED sImg
    /\ \E p \in {sReq.params} :
       IF Missing(p, {"profile", "format"})
       THEN sResp' = Escaped("KeyError") /\ UNCHANGED sLog
       ELSE /\ sLog' = Append(sLog, "config")
            /\ sResp' = IF NoneName(p.profile)
                        THEN (CASE p.format = "csv"  -> NotResponse("str")
                                [] p.format = "text" -> Text("list")
                                [] OTHER             -> NotResponse("None"))
                        ELSE IF p.profile \in ConfigProfiles THEN Text("json")
                        ELSE Escaped("KeyError")
    /\ UNCHANGED <<sReq, sSql>>
    /\ UNCHANGED <<codecVars, expandVars, getVars, loopVars, clientVars, locateVars, procVars>>

\* GET /spec/contexts
ContextsList ==
    /\ spc = "start"
    /\ sReq.endpoint = "contexts"
    /\ spc' = "done"
    /\ UNCHANGED sImg
    /\ \E p \in {sReq.params} :
       IF Missing(p, {"context", "format"})
       THEN sResp' = Escaped("KeyError") /\ UNCHANGED sLog
       ELSE /\ sLog' = Append(sLog, "config")
            /\ sResp' = IF NoneName(p.context)
                        THEN (CASE p.format = "csv"  -> NotResponse("str")
                                [] p.format = "json" -> Text("json")
                                [] p.format = "text" -> Text("list")
                                [] OTHER             -> NotResponse("None"))
                        ELSE IF p.context \in ConfigContexts THEN Text("json")
                        ELSE Escaped("KeyError")
    /\ UNCHANGED <<sReq, sSql>>
    /\ UNCHANGED <<codecVars, expandVars, getVars, loopVars, clientVars, locateVars, procVars>>

CatalogsRequests ==
    {Request("catalogs", [context |-> c, profile |-> "default", format |-> fmt]) :
        c \in {"default", "nosuch"}, fmt \in {"csv", "text", "json"}}
    \cup {Request("catalogs",
                  Without([context |-> "default", profile |-> "default",
                           format |-> "csv"], k)) :
             k \in {"context", "profile", "format"}}

\* GET /spec/catalogs
Catalogs ==
    /\ spc = "start"
    /\ sReq.endpoint = "catalogs"
    /\ spc' = "done"
    /\ UNCHANGED sImg
    /\ \E p \in {sReq.params} :
       IF Missing(p, {"context", "profile", "format"})
       THEN sResp' = Escaped("KeyError") /\ UNCHANGED sLog
       ELSE /\ sLog' = Append(sLog, "config")
            /\ sResp' = IF p.context \notin ConfigContexts THEN Escaped("KeyError")
                        ELSE IF p.format \in {"csv", "text"} THEN Text("list")
                        ELSE Escaped("UnboundLocalError")
    /\ UNCHANGED <<sReq, sSql>>
    /\ UNCHANGED <<codecVars, expandVars, getVars, loopVars, clientVars, locateVars, procVars>>

ValidateRequests ==
    {Request("validate", [what |-> w, value |-> v]) :
        w \in {"context", "profile", "release"}, v \in {"default", "nosuch"}}
    \cup {Request("validate", [what |-> "context"]),
          Request("validate", [value |-> "default"])}

\* GET /spec/validate
Validate ==
    /\ spc = "start"
    /\ sReq.endpoint = "validate"
    /\ spc' = "done"
    /\ UNCHANGED sImg
    /\ \E p \in {sReq.params} :
       IF Missing(p, {"what", "value"})
       THEN sResp' = Escaped("KeyError") /\ UNCHANGED sLog
       ELSE /\ sLog' = IF p.what \in {"context", "profile"}
                       THEN Append(sLog, "config") ELSE sLog
            /\ sResp' = CASE p.what = "context" ->
                               IF p.value \in ConfigContexts THEN Text("OK") ELSE Text("Error")
                          [] p.what = "profile" ->
                               IF p.value \in ConfigProfiles THEN Text("OK") ELSE Text("Error")
                          [] OTHER -> Text("Error:")
    /\ UNCHANGED <<sReq, sSql>>
    /\ UNCHANGED <<codecVars, expandVars, getVars, loopVars, clientVars, locateVars, procVars>>

\* The ids that have a preview file and a data file on disk.
FileIds == {1, 2, 3, 12, 31}

PreviewRequests ==
    {Request("preview", [id |-> id, context |-> c, profile |-> "default"]) :
        id \in {<<"1">>, <<"9">>}, c \in Contexts \cup {UnknownContext}}
    \cup {Request("preview",
                  Without([id |-> <<"1">>, context |-> "default",
                           profile |-> "default"], k)) :
             k \in {"id", "context", "profile"}}

\* GET /spec/preview.  The except clause only prints: a parameter read
\* before the missing one is bound, the others are not.
Preview ==
    /\ spc = "start"
    /\ sReq.endpoint = "preview"
    /\ spc' = "done"
    /\ UNCHANGED sImg
    /\ \E p \in {sReq.params} :
       IF Missing(p, {"id", "context"})
       THEN sResp' = Escaped("UnboundLocalError") /\ UNCHANGED sLog
       ELSE IF p.context \notin Contexts
       THEN sResp' = Escaped("AttributeError") /\ sLog' = Append(sLog, "getSvc")
       ELSE IF ~IntAccepts(p.id)
       THEN sResp' = Escaped("ValueError") /\ sLog' = Append(sLog, "getSvc")
       ELSE IF IntOf(p.id) \notin FileIds
       THEN sResp' = Escaped("Exception") /\ sLog' = sLog \o <<"getSvc", "file">>
       ELSE sResp' = Bytes /\ sLog' = sLog \o <<"getSvc", "file">>
    /\ UNCHANGED <<sReq, sSql>>
    /\ UNCHANGED <<codecVars, expandVars, getVars, loopVars, clientVars, locateVars, procVars>>

\* The wire strings of the id lists sent to plotGrid and stackedImage.
WireLists ==
    {<<>>, <<"[", "]">>, <<"[", "1", "]">>, <<"[", "1", ",", " ", "2", "]">>,
     <<"[", "1", ",", " ", "3", "]">>, <<"[", "1", ",", " ", "9", "]">>, <<"1", ",", "2">>,
     <<"1", "2", ",", "3", "1">>}

GridParams == {"id_list", "ncols", "context", "profile", "debug", "verbose"}
GridRequest(id_list, ncols, context) ==
    [id_list |-> id_list, ncols |-> ncols, context |-> context,
     profile |-> "default", debug |-> "False", verbose |-> "False"]
GridRequests ==
    {Request("plotGrid", GridRequest(l, n, c)) :
        l \in WireLists, n \in {<<"2">>, <<"0">>, <<"x">>}, c \in {"default", "nosuch"}}
    \cup {Request("plotGrid", Without(GridRequest(<<"[", "1", "]">>, <<"2">>, "default"), k)) :
             k \in GridParams}

\* The items of id_list[1:-1].split(','); int() and np.uint64() take an
\* item with the blanks around it stripped.
InnerSplit(id_list) == Split(SubSeq(id_list, 2, Len(id_list) - 1), ",")
InnerItems(id_list) ==
    [i \in 1 .. Len(InnerSplit(id_list)) |-> Strip(InnerSplit(id_list)[i])]

\* POST /spec/plotGrid
PlotGrid ==
    /\ spc = "start"
    /\ sReq.endpoint = "plotGrid"
    /\ spc' = "done"
    /\ UNCHANGED sImg
    /\ \E p \in {sReq.params} :
       IF Missing(p, GridParams) \/ ~IntAccepts(p.ncols)
       THEN sResp' = ParamError /\ UNCHANGED sLog
       ELSE \E items \in {InnerItems(p.id_list)} :
            IF ~IntAccepts(items[1])
            THEN sResp' = Escaped("ValueError") /\ sLog' = Append(sLog, "getSvc")
            ELSE IF p.context \notin Contexts
            THEN sResp' = Escaped("AttributeError") /\ sLog' = Append(sLog, "getSvc")
            ELSE IF \E i \in 1 .. Len(items) : ~IntAccepts(items[i])
            THEN sResp' = Escaped("ValueError") /\ sLog' = sLog \o <<"getSvc", "file">>
            ELSE IF \E i \in 1 .. Len(items) : IntOf(items[i]) \notin FileIds
            THEN sResp' = Escaped("Exception") /\ sLog' = sLog \o <<"getSvc", "file">>
            ELSE IF IntOf(p.ncols) = 0
            THEN sResp' = Escaped("ZeroDivisionError") /\ sLog' = sLog \o <<"getSvc", "file">>
            ELSE sResp' = Bytes /\ sLog' = sLog \o <<"getSvc", "file">>
    /\ UNCHANGED <<sReq, sSql>>
    /\ UNCHANGED <<codecVars, expandVars, getVars, loopVars, clientVars, locateVars, procVars>>

\* The spectrum files of the ids on disk.
ServerStore ==
    [id \in FileIds |-> CASE id = 2 -> Spectrum(2, 2, 1)
                          [] id = 3 -> Spectrum(1, 3, 1)
                          [] OTHER  -> Spectrum(1, 2, 1)]

StackParams ==
    {"id_list", "thickness", "inverse", "cmap", "xscale", "yscale", "width",
     "height", "context", "profile", "debug", "verbose"}
StackRequest(id_list, thickness, context) ==
    [id_list |-> id_list, thickness |-> thickness, inverse |-> "False",
     cmap |-> "gray", xscale |-> "1.0", yscale |-> "1.0", width |-> <<"0">>,
     height |-> <<"0">>, context |-> context, profile |-> "default",
     debug |-> "False", verbose |-> "False"]
Sized(params, xscale, yscale, width, height) ==
    [params EXCEPT !.xscale = xscale, !.yscale = yscale, !.width = width,
                   !.height = height]
StackRequests ==
    {Request("stackedImage", StackRequest(l, n, c)) :
        l \in WireLists, n \in {<<"1">>, <<"2">>, <<"0">>, <<"x">>},
        c \in {"default", "nosuch"}}
    \cup {Request("stackedImage",
                  Sized(StackRequest(l, <<"1">>, "default"), x, y, wh[1], wh[2])) :
             l \in {<<"[", "1", "]">>, <<"[", "1", ",", " ", "2", "]">>},
             x \in {"1.0", "2.0", "x"}, y \in {"1.0", "2.0"},
             wh \in {<<(<<"0">>), (<<"0">>)>>, <<(<<"3">>), (<<"2">>)>>}}
    \cup {Request("stackedImage", Without(StackRequest(<<"[", "1", "]">>, <<"1">>, "default"), k)) :
             k \in StackParams}

\* float(params['xscale']) for the values sent: <<numerator, denominator>>.
FloatAccepts(s) == s \in {"1.0", "2.0"}
FloatOf(s) == IF s = "2.0" THEN <<2, 1>> ELSE <<1, 1>>

\* The lengths the flux row of one spectrum can have after the padding.
RowLens(data, w) ==
    {data.n + lpad + rpad : lpad \in Lpads(data, w[1]), rpad \in Rpads(data, w[2])}

\* img_data: the first flux row once ("img_data = np.array(f)"), then for
\* every further spectrum "for i in range(thick): np.vstack".  Each row is
\* given by the id it shows.
RECURSIVE Repeat(_, _)
Repeat(x, n) == IF n <= 0 THEN <<>> ELSE <<x>> \o Repeat(x, n - 1)
StackRows(ids, thick) ==
    <<ids[1]>> \o Flatten([i \in 1 .. Len(ids) - 1 |-> Repeat(ids[i + 1], thick)])

\* Image.fromarray(rescaled).size: (columns, rows) of a 2-d array, and
\* (1, length) of a 1-d array.
NativeSize(nrows, len) == IF nrows = 1 THEN <<1, len>> ELSE <<len, nrows>>

\* The resizing with the absolute size taken as (width, height).
ResizedAsNamed(size, xscale, yscale, width, height) ==
    IF xscale # <<1, 1>> \/ yscale # <<1, 1>>
    THEN <<(size[1] * xscale[1]) \div xscale[2], (size[2] * yscale[1]) \div yscale[2]>>
    ELSE IF width # 0 \/ height # 0 THEN <<width, height>>
    ELSE size

\* The size after the resizing: image.resize takes (width, height), and
\* the code calls image.resize((height, width)).
Resized(size, xscale, yscale, width, height) ==
    IF xscale # <<1, 1>> \/ yscale # <<1, 1>>
    THEN <<(size[1] * xscale[1]) \div xscale[2], (size[2] * yscale[1]) \div yscale[2]>>
    ELSE IF width # 0 \/ height # 0 THEN <<height, width>>
    ELSE size

Image(ids, rows, native, size) ==
    [ids |-> ids, rows |-> rows, native |-> native, size |-> size]
NoImage == Image(<<>>, <<>>, <<0, 0>>, <<0, 0>>)
Outcome(resp, log, img) == [resp |-> resp, log |-> log, img |-> img]

\* The parameters stackedImage cannot decode.
StackUndecodable(p) ==
    \/ ~IntAccepts(p.thickness) \/ ~FloatAccepts(p.xscale) \/ ~FloatAccepts(p.yscale)
    \/ ~IntAccepts(p.width) \/ ~IntAccepts(p.height)

\* The image of the spectra `shown`, their rows of the lengths `lens`.
StackImage(p, shown, lens) ==
    IF IntOf(p.thickness) > 0 /\ \E i \in 1 .. Len(shown) : lens[i] # lens[1]
    THEN Outcome(Escaped("ValueError"), <<"getSvc", "file">>, NoImage)
    ELSE Outcome(Bytes, <<"getSvc", "file">>,
                 Image(shown, StackRows(shown, IntOf(p.thickness)),
                       NativeSize(Len(StackRows(shown, IntOf(p.thickness))), lens[1]),
                       Resized(NativeSize(Len(StackRows(shown, IntOf(p.thickness))), lens[1]),
                               FloatOf(p.xscale), FloatOf(p.yscale),
                               IntOf(p.width), IntOf(p.height))))

\* The spectra drawn are those of "map(int, id_list[1:-1].split(','))";
\* ids, the expanded list, gives the span.
StackRender(p, ids, items) ==
    IF \E i \in 1 .. Len(ids) : ids[i] \notin FileIds
    THEN {Outcome(Escaped("Exception"), <<"getSvc", "file">>, NoImage)}
    ELSE IF \E i \in 1 .. Len(items) : ~IntAccepts(items[i])
    THEN {Outcome(Escaped("ValueError"), <<"getSvc", "file">>, NoImage)}
    ELSE IF \E i \in 1 .. Len(items) : IntOf(items[i]) \notin FileIds
    THEN {Outcome(Escaped("Exception"), <<"getSvc", "file">>, NoImage)}
    ELSE UNION {
           {StackImage(p, [i \in 1 .. Len(items) |-> IntOf(items[i])], lens) :
               lens \in {l \in [1 .. Len(items) ->
                                  UNION {RowLens(ServerStore[IntOf(items[i])], w) :
                                            i \in 1 .. Len(items)}] :
                           \A i \in 1 .. Len(items) :
                               l[i] \in RowLens(ServerStore[IntOf(items[i])], w)}} :
           w \in {_listSpan(ServerStore, ids)}}

StackOutcomes(p) ==
    IF Missing(p, StackParams) \/ StackUndecodable(p)
    THEN {Outcome(ParamError, <<>>, NoImage)}
    ELSE IF p.context \notin Contexts
    THEN {Outcome(Escaped("AttributeError"), <<"getSvc">>, NoImage)}
    ELSE UNION {IF out.tag = "raise"
                THEN {Outcome(Escaped(out.exc), <<"getSvc">>, NoImage)}
                ELSE StackRender(p, IdsOf(out), InnerItems(p.id_list)) :
                out \in {expandIDList(p.id_list)}}

\* POST /spec/stackedImage
StackedImage ==
    /\ spc = "start"
    /\ sReq.endpoint = "stackedImage"
    /\ spc' = "done"
    /\ \E r \in StackOutcomes(sReq.params) :
          /\ sResp' = r.resp
          /\ sLog' = sLog \o r.log
          /\ sImg' = r.img
    /\ UNCHANGED <<sReq, sSql>>
    /\ UNCHANGED <<codecVars, expandVars, getVars, loopVars, clientVars, locateVars, procVars>>

Requests ==
    QueryRequests \cup ListRequests("profiles", "profile")
        \cup ListRequests("contexts", "context") \cup CatalogsRequests
        \cup ValidateRequests \cup PreviewRequests \cup GridRequests
        \cup StackRequests

InitServerVars ==
    /\ spc = "start"
    /\ sReq \in Requests
    /\ sResp = NoReply
    /\ sLog = <<>>
    /\ sSql = NoSql
    /\ sImg = NoImage

ServerOff ==
    /\ spc = "off" /\ sReq = Request("none", <<>>) /\ sResp = NoReply
    /\ sLog = <<>> /\ sSql = NoSql /\ sImg = NoImage

(***************************************************************************)
(* The event loop of the server (src/specserver.py, loop.run_forever()):   *)
(* one thread runs every handler, and a handler keeps the thread until it  *)
(* returns or reaches an await.  The handlers of src/svr_async.py await    *)
(* only request.post(); svc.readFile, svc.getData and qc.query are plain   *)
(* calls.                                                                  *)
(***************************************************************************)
MaxTasks == 3
MaxFiles == 2
Tasks == 1 .. MaxTasks

\* A request in the loop: "waiting" (received, handler not yet called),
\* "form" (suspended in await request.post()), "catalog" (in qc.query),
\* "disk" (reading its files, `left` of them still to read), "done".
Task(endpoint, tuples, left) ==
    [endpoint |-> endpoint, pc |-> "waiting", tuples |-> tuples, left |-> left]
TaskInputs ==
    {Task("ping", FALSE, 0), Task("query", FALSE, 0), Task("preview", FALSE, 1)}
    \cup {Task("getSpec", tuples, left) : tuples \in BOOLEAN, left \in 1 .. MaxFiles}
NoTask == [endpoint |-> "none", pc |-> "off", tuples |-> FALSE, left |-> 0]

InitLoopVars ==
    /\ lTask \in [Tasks -> TaskInputs]
    /\ lRun = 0

LoopOff ==
    /\ lTask = [t \in Tasks |-> NoTask]
    /\ lRun = 0

\* GET /ping: the handler returns without an await.
Ping(t) ==
    /\ lRun = 0
    /\ lTask[t].pc = "waiting" /\ lTask[t].endpoint = "ping"
    /\ lTask' = [lTask EXCEPT ![t].pc = "done"]
    /\ UNCHANGED lRun
    /\ UNCHANGED <<codecVars, expandVars, getVars, serverVars, clientVars, locateVars, procVars>>

\* The loop calls the handler of a request: getSpec suspends in
\* await request.post(); query goes into svc.query and preview into
\* svc.readFile, and they hold the loop.
Dispatch(t) ==
    /\ lRun = 0
    /\ lTask[t].pc = "waiting" /\ lTask[t].endpoint # "ping"
    /\ \/ /\ lTask[t].endpoint = "getSpec"
          /\ lTask' = [lTask EXCEPT ![t].pc = "form"]
          /\ lRun' = 0
       \/ /\ lTask[t].endpoint = "query"
          /\ lTask' = [lTask EXCEPT ![t].pc = "catalog"]
          /\ lRun' = t
       \/ /\ lTask[t].endpoint = "preview"
          /\ lTask' = [lTask EXCEPT ![t].pc = "disk"]
          /\ lRun' = t
    /\ UNCHANGED <<codecVars, expandVars, getVars, serverVars, clientVars, locateVars, procVars>>

\* The form is read and the loop resumes getSpec, which goes on without
\* another await: svc.expandIDList (a catalog call when the list holds
\* tuples), then the files.
FormRead(t) ==
    /\ lRun = 0
    /\ lTask[t].pc = "form"
    /\ lTask' = [lTask EXCEPT ![t].pc = IF lTask[t].tuples THEN "catalog" ELSE "disk"]
    /\ lRun' = t
    /\ UNCHANGED <<codecVars, expandVars, getVars, serverVars, clientVars, locateVars, procVars>>

\* qc.query returns to the handler that called it.
CatalogReply(t) ==
    /\ lRun = t
    /\ lTask[t].pc = "catalog"
    /\ \/ /\ lTask[t].endpoint = "query"
          /\ lTask' = [lTask EXCEPT ![t].pc = "done"]
          /\ lRun' = 0
       \/ /\ lTask[t].endpoint # "query"
          /\ lTask' = [lTask EXCEPT ![t].pc = "disk"]
          /\ lRun' = t
    /\ UNCHANGED <<codecVars, expandVars, getVars, serverVars, clientVars, locateVars, procVars>>

\* One file is read; after the last one the handler returns its response.
FileRead(t) ==
    /\ lRun = t
    /\ lTask[t].pc = "disk" /\ lTask[t].left > 0
    /\ \/ /\ lTask[t].left > 1
          /\ lTask' = [lTask EXCEPT ![t].left = @ - 1]
          /\ lRun' = t
       \/ /\ lTask[t].left = 1
          /\ lTask' = [lTask EXCEPT ![t].left = 0, ![t].pc = "done"]
          /\ lRun' = 0
    /\ UNCHANGED <<codecVars, expandVars, getVars, serverVars, clientVars, locateVars, procVars>>

(***************************************************************************)
(* The client (src/specClient.py): the module-level functions, which work  *)
(* on the object sp_client, and the methods of a specClient object.        *)
(***************************************************************************)
Clients == {"sp_client", "client"}
ContextNames == ConfigContexts \cup {UnknownContext}
ProfileNames == ConfigProfiles \cup {"nosuch"}

\* The server's side of set_context and set_profile: the text of
\* GET /spec/validate, as bytes.
validate(what, value) ==
    CASE what = "context" ->
           IF value \in ConfigContexts THEN Text("OK") ELSE Text("Error")
      [] what = "profile" ->
           IF value \in ConfigProfiles THEN Text("OK") ELSE Text("Error")
      [] OTHER -> Text("Error:")
curl_get(what, value) == [ty |-> "bytes", s |-> validate(what, value).head]

\* spcToString: bytes are decoded, a str is kept.
PyStr(s) == [ty |-> "str", s |-> s]
spcToString(v) == IF v.ty = "bytes" THEN PyStr(v.s) ELSE v

Call(fn, scope, client, arg) ==
    [fn |-> fn, scope |-> scope, client |-> client, arg |-> arg]
NoCall == Call("none", "none", "none", "")
CallReturned(v) == [kind |-> "value", v |-> v]
CallRaised  == [kind |-> "raise", v |-> PyStr("")]
NoReturn    == [kind |-> "none", v |-> PyStr("")]

\* getClient(context='default', profile='default')
InitClientVars ==
    /\ kProfile = [i \in Clients |-> PyStr("default")]
    /\ kContext = [i \in Clients |-> PyStr("default")]
    /\ kCall = NoCall
    /\ kRet = NoReturn
    /\ kLastSet = [i \in Clients |-> "none"]
    /\ kResp = NoReply

ClientOff ==
    /\ kProfile = [i \in Clients |-> PyStr("")]
    /\ kContext = [i \in Clients |-> PyStr("")]
    /\ kCall = NoCall
    /\ kRet = NoReturn
    /\ kLastSet = [i \in Clients |-> "none"]
    /\ kResp = NoReply

\* The object a call works on: sp_client for a module-level function.
Scopes == {<<"module", "sp_client">>} \cup {<<"method", i>> : i \in Clients}

\* specClient.set_context(context), and set_context(context) of the module
SetContext ==
    \E sc \in Scopes, c \in ContextNames :
       /\ kCall' = Call("set_context", sc[1], sc[2], c)
       /\ UNCHANGED kResp
       /\ IF spcToString(curl_get("context", c)) = PyStr("OK")
          THEN /\ kContext' = [kContext EXCEPT ![sc[2]] = spcToString(PyStr(c))]
               /\ kRet' = CallReturned(PyStr("OK"))
               /\ kLastSet' = [kLastSet EXCEPT ![sc[2]] = c]
          ELSE /\ kRet' = CallRaised
               /\ UNCHANGED <<kContext, kLastSet>>
       /\ UNCHANGED kProfile
       /\ UNCHANGED <<codecVars, expandVars, getVars, serverVars, loopVars, locateVars, procVars>>

\* specClient.set_profile(profile), and set_profile(profile) of the module
SetProfile ==
    \E sc \in Scopes, q \in ProfileNames :
       /\ kCall' = Call("set_profile", sc[1], sc[2], q)
       /\ UNCHANGED kResp
       /\ IF spcToString(curl_get("profile", q)) = PyStr("OK")
          THEN /\ kProfile' = [kProfile EXCEPT ![sc[2]] = spcToString(PyStr(q))]
               /\ kRet' = CallReturned(PyStr("OK"))
          ELSE /\ kRet' = CallRaised
               /\ UNCHANGED kProfile
       /\ UNCHANGED <<kContext, kLastSet>>
       /\ UNCHANGED <<codecVars, expandVars, getVars, serverVars, loopVars, locateVars, procVars>>

\* specClient.get_profile(), and get_profile() of the module
get_profile(i) == spcToString(kProfile[i])
\* specClient.get_context()
get_context(i) == spcToString(kContext[i])
\* get_context() of the module: "return sp_client.get_profile()"
module_get_context == get_profile("sp_client")

GetProfile ==
    \E sc \in Scopes :
       /\ kCall' = Call("get_profile", sc[1], sc[2], "")
       /\ UNCHANGED kResp
       /\ kRet' = CallReturned(get_profile(sc[2]))
       /\ UNCHANGED <<kProfile, kContext, kLastSet>>
       /\ UNCHANGED <<codecVars, expandVars, getVars, serverVars, loopVars, locateVars, procVars>>

GetContext ==
    \E sc \in Scopes :
       /\ kCall' = Call("get_context", sc[1], sc[2], "")
       /\ UNCHANGED kResp
       /\ kRet' = CallReturned(IF sc[1] = "module" THEN module_get_context
                                               ELSE get_context(sc[2]))
       /\ UNCHANGED <<kProfile, kContext, kLastSet>>
       /\ UNCHANGED <<codecVars, expandVars, getVars, serverVars, loopVars, locateVars, procVars>>

\* The form fields the server's getSpec handler reads in its try block.
GetSpecParams ==
    {"id_list", "values", "cutout", "format", "align", "w0", "w1", "context",
     "profile", "debug", "verbose"}

\* The payload specClient.getSpec builds; None stands for Python's None.
None == "None"
Payload(id_list, bands, fmt, align, cutout, context, profile) ==
    [id_list |-> id_list, bands |-> bands, format |-> fmt, align |-> align,
     cutout |-> cutout, w0 |-> "0.0", w1 |-> "0.0", context |-> context,
     profile |-> profile, debug |-> "False", verbose |-> "False"]

\* requests.post(url, data=data): a field whose value is None is not sent.
FormOf(data) == [k \in {f \in DOMAIN data : data[f] # None} |-> data[k]]

\* The server's answer to a form as far as the try block of getSpec goes.
DecodeGetSpec(form) ==
    IF Missing(form, GetSpecParams) THEN ParamError ELSE Bytes

\* specClient.getSpec(id_list, fmt=, align=, cutout=, bands=), and getSpec
\* of the module, up to the response to the post to /getSpec.  cutout is
\* self.auth_token when it is not given.
ClientGetSpec ==
    \E sc \in Scopes, bands \in {"all", "flux"}, cutout \in {None, "token"},
       fmt \in {"numpy", "fits"}, align \in {"True", "False"} :
       /\ kCall' = Call("getSpec", sc[1], sc[2], bands)
       /\ kResp' = DecodeGetSpec(FormOf(Payload("[1]", bands, fmt, align, cutout,
                                               kContext[sc[2]].s, kProfile[sc[2]].s)))
       /\ kRet' = IF kResp' = Bytes THEN CallReturned(PyStr("data")) ELSE CallRaised
       /\ UNCHANGED <<kProfile, kContext, kLastSet>>
       /\ UNCHANGED <<codecVars, expandVars, getVars, serverVars, loopVars, locateVars, procVars>>

(***************************************************************************)
(* The file locator (src/svc_sdss.py, _idToPath) of the dr16 service.  A   *)
(* path is the record of what its name is composed of; the .fits files     *)
(* are under fits_root and every other file under cache_root, so that the  *)
(* extension tells the root.                                               *)
(***************************************************************************)
Release == "dr16"
\* sdss_run2d['dr16'], each code as str(r) writes it
PermittedRun2d ==
    <<(<<"2", "6">>), (<<"1", "0", "3">>), (<<"1", "0", "4">>),
      (<<"v", "5", "_", "1", "3", "_", "0">>)>>
V5_10_0 == <<"v", "5", "_", "1", "0", "_", "0">>
BossLower == <<"b", "o", "s", "s">>

FilePath(survey, run2d, full, plate, mjd, fiber, extn) ==
    [survey |-> survey, run2d |-> run2d, full |-> full, plate |-> plate,
     mjd |-> mjd, fiber |-> fiber, extn |-> extn]

\* The spectrum the ids of the model name, and the files there can be for
\* it, with one file of another fiber.
LocPlate == 7
LocMjd   == 50008
LocFiber == 1
FileUniverse ==
    {FilePath(Sdss, PermittedRun2d[1], FALSE, LocPlate, LocMjd, LocFiber, "npy"),
     FilePath(Sdss, PermittedRun2d[2], FALSE, LocPlate, LocMjd, LocFiber, "npy"),
     FilePath(Sdss, V5_10_0, FALSE, LocPlate, LocMjd, LocFiber, "npy"),
     FilePath(BossLower, PermittedRun2d[4], FALSE, LocPlate, LocMjd, LocFiber, "npy"),
     FilePath(Sdss, PermittedRun2d[4], TRUE, LocPlate, LocMjd, LocFiber, "npy"),
     FilePath(BossLower, PermittedRun2d[1], TRUE, LocPlate, LocMjd, LocFiber, "npy"),
     FilePath(Sdss, PermittedRun2d[1], FALSE, LocPlate, LocMjd, LocFiber + 1, "npy"),
     FilePath(Sdss, PermittedRun2d[1], FALSE, LocPlate, LocMjd, LocFiber, "fits"),
     FilePath(Sdss, V5_10_0, FALSE, LocPlate, LocMjd, LocFiber, "fits"),
     FilePath(BossLower, PermittedRun2d[4], FALSE, LocPlate, LocMjd, LocFiber, "fits"),
     FilePath(Sdss, PermittedRun2d[2], TRUE, LocPlate, LocMjd, LocFiber, "fits")}
MaxDiskFiles == 3
Disks == {d \in SUBSET FileUniverse : Cardinality(d) <= MaxDiskFiles}

\* The identifiers: a packed specobjid (its four limbs), or a tuple of 3, 4
\* or 5 fields.
PackedId(l)  == [k |-> "packed", l |-> l, t |-> <<>>]
TupleId(t)   == [k |-> "tuple", l |-> <<0, 0, 0, 0>>, t |-> t]
LocateIds ==
    {PackedId(Limbs(MkId(LocPlate, LocFiber, LocMjd - 50000, r, 0))) : r \in {0, 26, 103, 1000}}
    \cup {TupleId(<<LocPlate, LocMjd, LocFiber>>)}
    \cup {TupleId(<<LocPlate, LocMjd, LocFiber, r>>) : r \in {PermittedRun2d[2], V5_10_0}}
    \cup {TupleId(<<LocPlate, LocMjd, LocFiber, PermittedRun2d[2], Sdss>>),
          TupleId(<<LocPlate, LocMjd, LocFiber, PermittedRun2d[4], Boss>>),
          TupleId(<<LocPlate, LocMjd, LocFiber, PermittedRun2d[1], Segue1>>)}

Found(path) == [tag |-> "ok", path |-> path]
NoPath      == FilePath(<<>>, <<>>, FALSE, 0, 0, 0, "")
NoneFound   == [tag |-> "None", path |-> NoPath]
NotFound    == [tag |-> "raise", path |-> NoPath]
NoLocation  == [tag |-> "none", path |-> NoPath]

\* _buildPath(plate, mjd, fiber, run2d, survey, extn)
_buildPath(plate, mjd, fiber, run2d, survey, extn) ==
    FilePath(survey, run2d, FALSE, plate, mjd, fiber, extn)

\* Mutation of FirstPermitted: the last code whose file exists.
FirstPermittedLast(disk, plate, mjd, fiber, extn) ==
    LET hits == {i \in 1 .. Len(PermittedRun2d) :
                    _buildPath(plate, mjd, fiber, PermittedRun2d[i], Sdss, extn) \in disk}
    IN  IF hits = {} THEN 0 ELSE CHOOSE i \in hits : \A j \in hits : i >= j

\* The first code of self.run2d whose file exists, 0 when there is none.
FirstPermitted(disk, plate, mjd, fiber, extn) ==
    LET hits == {i \in 1 .. Len(PermittedRun2d) :
                    _buildPath(plate, mjd, fiber, PermittedRun2d[i], Sdss, extn) \in disk}
    IN  IF hits = {} THEN 0 ELSE CHOOSE i \in hits : \A j \in hits : i <= j

\* glob.glob('<release>/*/spectro/redux/*/spectra/full/...')
GlobFull(disk, plate, mjd, fiber, extn) ==
    {f \in disk : /\ f.full /\ f.plate = plate /\ f.mjd = mjd /\ f.fiber = fiber
                  /\ f.extn = extn}

\* _findFile(plate, mjd, fiber, extn): what it can return.  The order of
\* the list glob.glob returns is the file system's, so that any match can
\* be the first.
_findFile(disk, plate, mjd, fiber, extn) ==
    IF FirstPermitted(disk, plate, mjd, fiber, extn) # 0
    THEN {Found(_buildPath(plate, mjd, fiber,
                           PermittedRun2d[FirstPermitted(disk, plate, mjd, fiber, extn)],
                           Sdss, extn))}
    ELSE IF GlobFull(disk, plate, mjd, fiber, extn) # {}
    THEN {Found(f) : f \in GlobFull(disk, plate, mjd, fiber, extn)}
    ELSE {NoneFound}

\* The fields _idToPath takes from the id.  A tuple gives its run2d only
\* when it has exactly four fields: "run2d = id[3] if len(id) == 4 else ''".
LocSurvey(s) ==
    IF StartsWith(Lower(s), <<"s", "e", "g", "u", "e">>) THEN Sdss ELSE Lower(s)
IdFields(id) ==
    IF id.k = "packed"
    THEN [plate |-> unpack_specobjid(OfLimbs(id.l)).plate,
          mjd |-> unpack_specobjid(OfLimbs(id.l)).mjd,
          fiber |-> unpack_specobjid(OfLimbs(id.l)).fiber,
          run2d |-> unpack_specobjid(OfLimbs(id.l)).run2d,
          survey |-> Sdss]
    ELSE [plate |-> id.t[1], mjd |-> id.t[2], fiber |-> id.t[3],
          run2d |-> IF Len(id.t) = 4 THEN id.t[4] ELSE <<>>,
          survey |-> IF Len(id.t) = 5 THEN LocSurvey(id.t[5]) ELSE Sdss]

\* The first look of _idToPath: the search when there is no run2d, else
\* the composed path, and the search when that file does not exist.
FirstLook(disk, f, extn) ==
    IF f.run2d = <<>>
    THEN _findFile(disk, f.plate, f.mjd, f.fiber, extn)
    ELSE IF _buildPath(f.plate, f.mjd, f.fiber, f.run2d, f.survey, extn) \in disk
    THEN {Found(_buildPath(f.plate, f.mjd, f.fiber, f.run2d, f.survey, extn))}
    ELSE _findFile(disk, f.plate, f.mjd, f.fiber, extn)

\* "Lastly, try to find a FITS file before giving up."
LastLook(disk, f, r) ==
    IF r # NoneFound THEN {r}
    ELSE {IF q = NoneFound THEN NotFound ELSE q :
             q \in _findFile(disk, f.plate, f.mjd, f.fiber, "fits")}

\* _idToPath(id, extn): what it can return or raise.
_idToPath(disk, id, extn) ==
    UNION {LastLook(disk, IdFields(id), r) : r \in FirstLook(disk, IdFields(id), extn)}

InitLocateVars ==
    /\ fpc = "start"
    /\ fDisk \in Disks
    /\ fId \in LocateIds
    /\ fExtn \in {"npy", "fits"}
    /\ fRes = NoLocation

LocateOff ==
    /\ fpc = "off" /\ fDisk = {} /\ fId = TupleId(<<>>) /\ fExtn = ""
    /\ fRes = NoLocation

\* fname = svc.dataPath(id, extn)
IdToPath ==
    /\ fpc = "start"
    /\ fpc' = "done"
    /\ fRes' \in _idToPath(fDisk, fId, fExtn)
    /\ UNCHANGED <<fDisk, fId, fExtn>>
    /\ UNCHANGED <<codecVars, expandVars, getVars, serverVars, loopVars, clientVars, procVars>>

(***************************************************************************)
(* The server process over a sequence of requests: what outlives a         *)
(* request is the module's global names (src/svr_async.py) and the service *)
(* objects of Registry.services.                                           *)
(***************************************************************************)
MaxCalls == 4

\* The value of the global name `debug` of svr_async: the handler function
\* of /spec/debug, which "async def debug(request)" binds the name to, until
\* the handler assigns a bool to it.
DebugFunction == "function"
\* bool(x) and str(x) of such a value
Truthy(x) == x = DebugFunction \/ x = "True"
PyNotStr(x) == IF Truthy(x) THEN "False" ELSE "True"

\* sdssService.__init__: self.debug = False, self.verbose = False
NewService == [debug |-> FALSE, verbose |-> FALSE]
Answer(endpoint, head) == [endpoint |-> endpoint, head |-> head]
NoAnswer == Answer("none", "")
NoCounts == [debug |-> 0, total |-> 0]

InitProcVars ==
    /\ ppc = "run"
    /\ pFlag = DebugFunction
    /\ pSvc = [c \in Contexts |-> NewService]
    /\ pCount = NoCounts
    /\ pResp = NoAnswer

ProcOff ==
    /\ ppc = "off" /\ pFlag = DebugFunction /\ pSvc = [c \in Contexts |-> NewService]
    /\ pCount = NoCounts /\ pResp = NoAnswer

\* GET /spec/debug: "global debug; debug = not debug; return str(debug)"
Debug ==
    /\ ppc = "run" /\ pCount.total < MaxCalls
    /\ pFlag' = PyNotStr(pFlag)
    /\ pResp' = Answer("debug", PyNotStr(pFlag))
    /\ pCount' = [pCount EXCEPT !.debug = @ + 1, !.total = @ + 1]
    /\ UNCHANGED <<ppc, pSvc>>
    /\ UNCHANGED <<codecVars, expandVars, getVars, serverVars, loopVars, clientVars, locateVars>>

\* GET /spec/query and POST /spec/getSpec with all their parameters, as
\* far as the service object goes: "svc.debug = debug; svc.verbose = verbose".
ServiceCall ==
    /\ ppc = "run" /\ pCount.total < MaxCalls
    /\ \E c \in Contexts, d \in BOOLEAN, v \in BOOLEAN :
          pSvc' = [pSvc EXCEPT ![c] = [debug |-> d, verbose |-> v]]
    /\ \E ep \in {"query", "getSpec"} : pResp' = Answer(ep, "")
    /\ pCount' = [pCount EXCEPT !.total = @ + 1]
    /\ UNCHANGED <<ppc, pFlag>>
    /\ UNCHANGED <<codecVars, expandVars, getVars, serverVars, loopVars, clientVars, locateVars>>

\* POST /spec/listSpan, /spec/plotGrid and /spec/stackedImage read debug
\* and verbose into locals only; GET /ping reads nothing.
ProcOther ==
    /\ ppc = "run" /\ pCount.total < MaxCalls
    /\ \E ep \in {"listSpan", "plotGrid", "stackedImage", "ping"} :
          pResp' = Answer(ep, "")
    /\ pCount' = [pCount EXCEPT !.total = @ + 1]
    /\ UNCHANGED <<ppc, pFlag, pSvc>>
    /\ UNCHANGED <<codecVars, expandVars, getVars, serverVars, loopVars, clientVars, locateVars>>

RestOff == LocateOff /\ ProcOff

InitCodec   == InitCodecVars /\ ExpandOff /\ GetOff /\ ServerOff /\ LoopOff /\ ClientOff /\ RestOff
InitExpand  == CodecOff /\ InitExpandVars /\ GetOff /\ ServerOff /\ LoopOff /\ ClientOff /\ RestOff
InitGetSpec == CodecOff /\ ExpandOff /\ InitGetVars /\ ServerOff /\ LoopOff /\ ClientOff /\ RestOff
InitServer  == CodecOff /\ ExpandOff /\ GetOff /\ InitServerVars /\ LoopOff /\ ClientOff /\ RestOff
InitLoop    == CodecOff /\ ExpandOff /\ GetOff /\ ServerOff /\ InitLoopVars /\ ClientOff /\ RestOff
InitClient  == CodecOff /\ ExpandOff /\ GetOff /\ ServerOff /\ LoopOff /\ InitClientVars /\ RestOff

NextCodec   == Pack \/ Unpack \/ Repack
NextExpand  == ExpandIDList
NextGetSpec == ListSpan \/ GetSpecStart \/ GetSpecRow \/ GetSpecFinish
NextServer  == Query \/ Profiles \/ ContextsList \/ Catalogs \/ Validate \/ Preview
                   \/ PlotGrid \/ StackedImage
NextLoop    == \E t \in Tasks :
                   Ping(t) \/ Dispatch(t) \/ FormRead(t) \/ CatalogReply(t) \/ FileRead(t)
InitLocate  == CodecOff /\ ExpandOff /\ GetOff /\ ServerOff /\ LoopOff /\ ClientOff
                   /\ InitLocateVars /\ ProcOff
NextLocate  == IdToPath
InitProcess == CodecOff /\ ExpandOff /\ GetOff /\ ServerOff /\ LoopOff /\ ClientOff
                   /\ LocateOff /\ InitProcVars
NextProcess == Debug \/ ServiceCall \/ ProcOther
NextClient  == SetContext \/ SetProfile \/ GetProfile \/ GetContext \/ ClientGetSpec

vars == <<cflow, cpc, cArgs, cX, cPacked, cUnpacked, epc, eTokens, eWire, eOut,
          gpc, gStore, gParams, gSpan, gIds, gRes, gResp,
          spc, sReq, sResp, sLog, sSql, sImg,
          lTask, lRun, kProfile, kContext, kCall, kRet, kLastSet, kResp,
          fpc, fDisk, fId, fExtn, fRes, ppc, pFlag, pSvc, pCount, pResp>>

SpecCodec   == InitCodec /\ [][NextCodec]_vars
SpecExpand  == InitExpand /\ [][NextExpand]_vars
SpecGetSpec == InitGetSpec /\ [][NextGetSpec]_vars
SpecServer  == InitServer /\ [][NextServer]_vars
SpecLoop    == InitLoop /\ [][NextLoop]_vars
SpecClient  == InitClient /\ [][NextClient]_vars
SpecLocate  == InitLocate /\ [][NextLocate]_vars
SpecProcess == InitProcess /\ [][NextProcess]_vars

(***************************************************************************)
(* Properties of the codec.                                                *)
(***************************************************************************)
ValidPlate(p) == p >= 1 /\ p <= Pow2(14) - 1
ValidFiber(f) == f >= 1 /\ f <= Pow2(12) - 1
ValidMjd(m)   == m >= 50001 /\ m <= 50000 + Pow2(14) - 1
ValidFields(a) == ValidPlate(a.plate) /\ ValidFiber(a.fiber) /\ ValidMjd(a.mjd)

\* pack_specobjid has been called on cArgs and cPacked is its outcome.
PackCalled == cflow = "pack" /\ cpc # "start"
\* ... and unpack_specobjid has been applied to the identifier it returned.
RoundTripped == cflow = "pack" /\ cpc = "done"

\* plate*2^50 + fiber*2^38 + (mjd-50000)*2^24 + run2d*2^10, in decimal.
DocumentedValue(plate, mjd, fiber, run2d) ==
    BigAdd(BigAdd(BigShl(BigOfNat(plate), 50), BigShl(BigOfNat(fiber), 38)),
           BigAdd(BigShl(BigOfNat(mjd - 50000), 24), BigShl(BigOfNat(run2d), 10)))

\* C1: for in-range plate, fiber, mjd and an integer run2d in 0..2^14-1,
\* pack_specobjid returns plate*2^50 + fiber*2^38 + (mjd-50000)*2^24 +
\* run2d*2^10; pack(1963, 54331, 19, 103) is 2210146812474530816.
C1_PackValue ==
    (/\ PackCalled /\ ValidFields(cArgs)
     /\ cArgs.run2d.kind = "int" /\ cArgs.run2d.n <= Pow2(14) - 1)
    => /\ cPacked.tag = "ok"
       /\ BigOfU64(OfLimbs(cPacked.id))
            = DocumentedValue(cArgs.plate, cArgs.mjd, cArgs.fiber, cArgs.run2d.n)
       /\ cArgs = Args(1963, 54331, 19, RunInt(103))
            => BigOfU64(OfLimbs(cPacked.id))
                 = DecLit(221, 0146, 8124, 7453, 0816)

C1_Witness ==
    PackCalled /\ cArgs = Args(1963, 54331, 19, RunInt(103)) /\ cPacked.tag = "ok"

\* The low ten bits of x are zero.
LowBitsZero(x) == \A i \in 0 .. 9 : x[i] = 0

\* C2: for every identifier x whose low 10 bits are 0 and whose mjd field
\* is > 0 (its run2d field may be 0), pack_specobjid applied to the fields
\* that unpack_specobjid(x) returned gives x back.  Stated for the call that
\* passes the fields as Python int and str.
C2_RepackRestores ==
    (/\ cflow = "unpack" /\ cpc = "done" /\ cArgs.run2d.kind = "str"
     /\ LowBitsZero(OfLimbs(cX)) /\ Field(OfLimbs(cX), 24, 14) > 0)
    => cPacked.tag = "ok" /\ cPacked.id = cX

\* s is vN_M_P in decimal without leading zeros, 5 <= N <= 6, M, P <= 99.
IsVersionString(s) ==
    LET m == VersionMatch(s) IN
    /\ m.ok
    /\ s = VersionFormat(IntOf(m.N), IntOf(m.M), IntOf(m.P))
    /\ IntOf(m.N) >= 5 /\ IntOf(m.N) <= 6 /\ IntOf(m.M) <= 99 /\ IntOf(m.P) <= 99

\* (N-5)*10000 + M*100 + P of a version string.
VersionCode(s) ==
    LET m == VersionMatch(s) IN
    (IntOf(m.N) - 5) * 10000 + IntOf(m.M) * 100 + IntOf(m.P)

LegacyCodes == {26, 103, 104}
IsLegacyInt(r) == r.kind = "int" /\ r.n \in LegacyCodes

\* canon of the specification: a legacy integer to its decimal spelling, a
\* version string to itself.
Canon(r) == IF r.kind = "int" THEN DecStr(r.n) ELSE r.s

RoundTripOf(a, run2d) ==
    [plate |-> a.plate, fiber |-> a.fiber, mjd |-> a.mjd, run2d |-> run2d]

\* C3 as first stated: for valid plate, mjd, fiber and run2d one of 26, 103,
\* 104 or any vN_M_P string, unpack(pack(.)) = (plate, mjd, fiber,
\* canon(run2d)) with every vN_M_P string canonical as itself.
C3_RoundTripAnyVersion ==
    (/\ PackCalled /\ ValidFields(cArgs)
     /\ IsLegacyInt(cArgs.run2d)
          \/ (cArgs.run2d.kind = "str" /\ IsVersionString(cArgs.run2d.s)))
    => /\ cPacked.tag = "ok"
       /\ cpc = "done" => cUnpacked = RoundTripOf(cArgs, Canon(cArgs.run2d))

\* canon as the codec implements it: the aliases of the legacy codes take
\* the decimal spelling, code 0 the empty string.
CanonOfCode(r) ==
    IF r.kind = "int" THEN DecStr(r.n)
    ELSE IF VersionCode(r.s) = 0 THEN <<>>
    ELSE IF VersionCode(r.s) \in LegacyCodes THEN DecStr(VersionCode(r.s))
    ELSE r.s

\* C3, amended: for valid plate, mjd, fiber and run2d one of 26, 103, 104 or
\* a vN_M_P string whose code (N-5)*10000 + M*100 + P is below 2^14,
\* unpack(pack(.)) = (plate, mjd, fiber, canon(run2d)), where canon gives
\* "26", "103", "104" for the legacy integers and for their aliases v5_0_26,
\* v5_1_3, v5_1_4, the empty string for v5_0_0, and every other string itself.
C3_RoundTripEncodable ==
    (/\ PackCalled /\ ValidFields(cArgs)
     /\ IsLegacyInt(cArgs.run2d)
          \/ (/\ cArgs.run2d.kind = "str" /\ IsVersionString(cArgs.run2d.s)
              /\ VersionCode(cArgs.run2d.s) < Pow2(14)))
    => /\ cPacked.tag = "ok"
       /\ cpc = "done" => cUnpacked = RoundTripOf(cArgs, CanonOfCode(cArgs.run2d))

C3_Witness ==
    /\ RoundTripped /\ ValidFields(cArgs)
    /\ cArgs.run2d = RunStr(VersionFormat(6, 63, 83))
    /\ cUnpacked.run2d = VersionFormat(6, 63, 83)

\* C4: for valid plate, mjd, fiber and r one of 103, 104, 26, given as an
\* integer or as its decimal string, the run2d that unpack(pack(.)) returns
\* is the decimal spelling "103", "104" or "26".
C4_LegacyStable ==
    \A n \in LegacyCodes :
        (/\ PackCalled /\ ValidFields(cArgs)
         /\ cArgs.run2d \in {RunInt(n), RunStr(DecStr(n))})
        => /\ cPacked.tag = "ok"
           /\ cpc = "done" => cUnpacked.run2d = DecStr(n)

C4_Witness ==
    /\ RoundTripped /\ ValidFields(cArgs)
    /\ cArgs.run2d = RunStr(<<"1", "0", "4">>)
    /\ cUnpacked.run2d = <<"1", "0", "4">>

\* C5: pack_specobjid(4055, 408, 55359, "v5_7_0"), the arguments taken in
\* the order of the signature (plate, mjd, fiber, run2d), returns
\* 4565636362342690816.
C5_DocExample ==
    (PackCalled /\ cArgs = Args(4055, 408, 55359, RunStr(VersionFormat(5, 7, 0))))
    => /\ cPacked.tag = "ok"
       /\ BigOfU64(OfLimbs(cPacked.id)) = DecLit(456, 5636, 3623, 4269, 0816)

\* A field past its width, an mjd not above 50000, or a run2d string that is
\* neither a decimal integer nor exactly vN_M_P.
InvalidArgs(a) ==
    \/ a.plate >= Pow2(14)
    \/ a.fiber >= Pow2(12)
    \/ a.mjd - 50000 >= Pow2(14)
    \/ a.mjd <= 50000
    \/ a.run2d.kind = "int" /\ a.run2d.n >= Pow2(14)
    \/ /\ a.run2d.kind = "str"
       /\ ~IntAccepts(a.run2d.s)
       /\ LET m == VersionMatch(a.run2d.s) IN
          \/ ~m.ok
          \/ Len(a.run2d.s) # 3 + Len(m.N) + Len(m.M) + Len(m.P)
          \/ VersionCode(a.run2d.s) >= Pow2(14)

\* C6: pack_specobjid raises, and returns no identifier, whenever a field
\* overflows its width, mjd <= 50000, or the run2d string is malformed.
C6_InvalidRaises ==
    (PackCalled /\ InvalidArgs(cArgs)) => cPacked.tag = "raise"

\* C7: every value pack_specobjid returns has its low ten bits zero.
C7_LowBits == cPacked.tag = "ok" => LowBitsZero(OfLimbs(cPacked.id))

C7_Witness == PackCalled /\ cPacked.tag = "ok" /\ OfLimbs(cPacked.id)[Run2dShift] = 1

(***************************************************************************)
(* Properties of the id expansion.                                         *)
(***************************************************************************)
\* The _expandID call expandIDList makes for a tuple token: missing fields
\* are '*'.
TupleField(tok, i) == IF Len(tok.f) >= i THEN tok.f[i] ELSE FStar
TokenExpansion(tok) ==
    _expandID(TupleField(tok, 1), TupleField(tok, 2), TupleField(tok, 3),
              TupleField(tok, 4))

\* What one token stands for: its own id, or the rows of its expansion.
TokenResult(tok) ==
    IF tok.k = "id" THEN <<IdElem(tok.n)>>
    ELSE LET r == TokenExpansion(tok) IN [i \in 1 .. Len(r.ids) |-> RowElem(r.ids[i])]

\* C8: for a list that mixes packed integers and tuples in any order
\* (adjacent integers included), expandIDList returns the concatenation, in
\* input order, of each token's result; no token is dropped or reordered.
C8_InOrderNoneDropped ==
    (/\ epc = "done"
     /\ \E i \in 1 .. Len(eTokens) : eTokens[i].k = "id"
     /\ \E i \in 1 .. Len(eTokens) : eTokens[i].k = "tuple"
     /\ \A i \in 1 .. Len(eTokens) :
            eTokens[i].k = "tuple" => TokenExpansion(eTokens[i]).tag = "ok")
    => /\ eOut.tag = "ok"
       /\ eOut.ids = Flatten([i \in 1 .. Len(eTokens) |-> TokenResult(eTokens[i])])

\* C9: _expandID raises, without a catalog query, whenever neither plate nor
\* mjd is constrained, whatever fiber and run2d are.
C9_UnderconstrainedRaises ==
    \A i \in 1 .. Len(eOut.calls) :
        (eOut.calls[i].plate = FStar /\ eOut.calls[i].mjd = FStar)
        => eOut.calls[i].tag = "raise" /\ ~eOut.calls[i].queried

(***************************************************************************)
(* Properties of getSpec.                                                  *)
(***************************************************************************)
\* C10: after getSpec with align=true over a non-empty id list, whatever
\* the spans, lengths and dispersions of the spectra, every output row has
\* the same length, and every row has loglam[0] = w0 and loglam[-1] = w1,
\* (w0, w1) being the common span of the list.
C10_AlignedRows ==
    (/\ gpc = "done"
     /\ gParams.align /\ gParams.values = "all" /\ gParams.format = "numpy"
     /\ gParams.context \in Contexts
     /\ <<gSpan.w0, gSpan.w1>> = _listSpan(gStore, gIds))
    => LET w == _listSpan(gStore, gIds) IN
       /\ gResp.kind = "body"
       /\ Len(gResp.rows) = Len(gIds)
       /\ \A i \in 1 .. Len(gResp.rows) :
              /\ gResp.rows[i].len = gResp.rows[1].len
              /\ gResp.rows[i].lo = w[1]
              /\ gResp.rows[i].hi = w[2]

\* What getSpec should return for id k when it does not align: the file
\* as it is on disk.
Native(k) == RowOf(gStore[k].n, First(gStore[k]), Last(gStore[k]))

\* C11: a getSpec request with align=false, whatever w0 and w1 it carries
\* and whatever the native lengths of the spectra, returns one record per
\* id, in input order, each at its native length, unpadded, with its loglam
\* column as on disk.
C11_UnalignedNative ==
    (/\ gpc = "done"
     /\ ~gParams.align /\ gParams.values = "all" /\ gParams.format = "numpy"
     /\ gParams.context \in Contexts)
    => /\ gResp.kind = "body"
       /\ Len(gResp.rows) = Len(gIds)
       /\ \A i \in 1 .. Len(gResp.rows) : gResp.rows[i] = Native(gIds[i])

\* The rows getSpec can make of one file under the span it holds.
RowsFor(data, span) ==
    IF ~span.align THEN {RowOf(data.n, First(data), Last(data))}
    ELSE {Aligned(data, span.w0, span.w1, lpad, rpad) :
              lpad \in Lpads(data, span.w0), rpad \in Rpads(data, span.w1)}

\* C12: within one getSpec request the ids are taken one after the other in
\* the order expandIDList gave them, and row k of the output is the (padded)
\* spectrum of the k-th id.
C12_RowOrder ==
    (/\ gpc \in {"loop", "done"} /\ gParams.values = "all"
     /\ gParams.context \in Contexts)
    => /\ gIds = IdsOf(expandIDList(gParams.id_list))
       /\ Len(gRes) <= Len(gIds)
       /\ \A k \in 1 .. Len(gRes) : gRes[k] \in RowsFor(gStore[gIds[k]], gSpan)
       /\ gResp.kind = "body" => gResp.rows = gRes /\ Len(gRes) = Len(gIds)

\* A two-row body whose rows differ, for ids given in descending order.
C12_Witness ==
    /\ gpc = "done" /\ gResp.kind = "body"
    /\ gIds = <<2, 1>>
    /\ Len(gResp.rows) = 2
    /\ gResp.rows[1] # gResp.rows[2]
    /\ gResp.rows[1] \in RowsFor(gStore[2], gSpan)

\* The span of a list of rows, taken as _listSpan takes it of files: the
\* least loglam[0] and the greatest loglam[-1].
RECURSIVE RowSpanLoop(_, _, _)
RowSpanLoop(rows, w0, w1) ==
    IF rows = <<>> THEN <<w0, w1>>
    ELSE RowSpanLoop(Tail(rows), Min(w0, Head(rows).lo), Max(w1, Head(rows).hi))
RowSpan(rows) == RowSpanLoop(rows, SpanStartW0, SpanStartW1)

AlignmentPassed ==
    /\ gpc = "done" /\ gResp.kind = "body" /\ gSpan.align

DigitFromRight(s, k) == IF k <= Len(s) THEN DigitVal(s[Len(s) + 1 - k]) ELSE 0
DecLimb(s, j) ==
    DigitFromRight(s, 4 * j - 3) + 10 * DigitFromRight(s, 4 * j - 2)
        + 100 * DigitFromRight(s, 4 * j - 1) + 1000 * DigitFromRight(s, 4 * j)
DecLimbs(s) == <<DecLimb(s, 1), DecLimb(s, 2), DecLimb(s, 3), DecLimb(s, 4), DecLimb(s, 5)>>

\* a >= b for numbers as limbs.
BigGeq(a, b) ==
    \/ a = b
    \/ \E j \in 1 .. 5 : a[j] > b[j] /\ \A k \in (j + 1) .. 5 : a[k] = b[k]

TwoTo63 == DecLit(922, 3372, 0368, 5477, 5808)

QueriedById ==
    /\ spc = "done" /\ sReq.endpoint = "query" /\ sResp = Text("csv")
    /\ ~IsNone(sReq.params.id)

\* C14: when an id is supplied the statement has the condition
\* specobjid = s, s the 64-bit two's-complement reading of the id: s = id
\* for id < 2^63 and s = id - 2^64 for id >= 2^63.
C14_SignedKey ==
    QueriedById
    => /\ sSql.word = "WHERE" /\ sSql.column = sdss_id_main
       /\ BigOfU64(OfLimbs(sSql.key.l)) = DecLimbs(sReq.params.id)
       /\ sSql.key.high = (IF BigGeq(DecLimbs(sReq.params.id), TwoTo63) THEN 1 ELSE 0)

\* A query by an id of 2^63 or more was answered.
C14_Witness ==
    /\ QueriedById
    /\ BigGeq(DecLimbs(sReq.params.id), TwoTo63)
    /\ sSql.key.high = 1

\* C15: the projection of every statement query builds has the column
\* specobjid as a column of its own, with or without an id and whatever
\* the fields are.
C15_KeyProjected ==
    (spc = "done" /\ sReq.endpoint = "query" /\ sResp = Text("csv"))
    => \E i \in 1 .. Len(Split(sSql.select, ",")) :
           Split(sSql.select, ",")[i] = sdss_id_main

(***************************************************************************)
(* Properties of the error handling of the endpoints.                      *)
(***************************************************************************)
\* The parameters each handler reads from the request.
Required(endpoint) ==
    CASE endpoint = "profiles"     -> {"profile", "format"}
      [] endpoint = "contexts"     -> {"context", "format"}
      [] endpoint = "catalogs"     -> {"context", "profile", "format"}
      [] endpoint = "validate"     -> {"what", "value"}
      [] endpoint = "query"        -> QueryParams
      [] endpoint = "preview"      -> {"id", "context", "profile"}
      [] endpoint = "plotGrid"     -> GridParams
      [] endpoint = "stackedImage" -> StackParams
      [] OTHER                     -> {}

\* A parameter that is there and that the handler cannot decode.
Undecodable(req) ==
    \/ /\ req.endpoint = "plotGrid"
       /\ "ncols" \in DOMAIN req.params /\ ~IntAccepts(req.params.ncols)
    \/ /\ req.endpoint = "stackedImage"
       /\ \/ "thickness" \in DOMAIN req.params /\ ~IntAccepts(req.params.thickness)
          \/ "xscale" \in DOMAIN req.params /\ ~FloatAccepts(req.params.xscale)

BadParameters(req) ==
    Missing(req.params, Required(req.endpoint)) \/ Undecodable(req)

\* C16: whatever the endpoint, a request with a required parameter missing
\* or undecodable is answered with a text that begins 'Param Error:', and
\* the handler has then resolved no context and touched no file.
C16_ParamErrorText ==
    (spc = "done" /\ BadParameters(sReq))
    => sResp = ParamError /\ sLog = <<>>

\* C17: a getSpec request that passes the parameter decoding and names a
\* context _getSvc does not know is answered with a text prefixed 'Error:'
\* or 'Param Error:'; the exception does not leave the handler.
C17_FailureAnswered ==
    (/\ gpc = "done"
     /\ gParams.values # "absent"
     /\ gParams.context \notin Contexts)
    => gResp.kind \in {"Error", "Param Error"}

\* C18: a stackedImage request with all its parameters and an empty id
\* list, the empty string or '[]', is answered with a 'Param Error:' text.
C18_EmptyListParamError ==
    (/\ spc = "done"
     /\ sReq.endpoint = "stackedImage"
     /\ ~BadParameters(sReq)
     /\ sReq.params.id_list \in {<<>>, <<"[", "]">>})
    => sResp = ParamError

(***************************************************************************)
(* Properties of the event loop.                                           *)
(***************************************************************************)
\* C19: while one request is in its disk phase or its catalog phase, the
\* server can take a waiting /ping request and complete it, before the
\* first request finishes.
C19_PingNotBlocked ==
    \A t, u \in Tasks :
        (/\ lTask[t].pc \in {"disk", "catalog"}
         /\ lTask[u].endpoint = "ping" /\ lTask[u].pc = "waiting")
        => ENABLED Ping(u)

(***************************************************************************)
(* Properties of the client.                                               *)
(***************************************************************************)
\* C20: once a set_context(c) has returned on a client object, every
\* get_context() on it returns c (the c of the last such call), whether
\* it is the module-level function or the method, and whatever set_profile
\* calls were made in between.
C20_GetAfterSet ==
    (/\ kCall.fn = "get_context"
     /\ kLastSet[kCall.client] # "none")
    => kRet = CallReturned(PyStr(kLastSet[kCall.client]))

(***************************************************************************)
(* Properties of the literal tuples.                                       *)
(***************************************************************************)
\* A tuple token with its four fields, none of them a wildcard, a list or
\* a range.
LiteralTuple(tok) ==
    /\ tok.k = "tuple" /\ Len(tok.f) = 4
    /\ \A i \in 1 .. 3 : tok.f[i].t = "int"
    /\ tok.f[4].t = "str" /\ tok.f[4] # FStar /\ ~Contains(tok.f[4].s, <<",">>)

\* C21: for a list of literal tuples expandIDList returns one identifier
\* per token, carrying the token's plate, mjd, fiber and run2d, without a
\* catalog query, whether or not the catalog has such a row.
C21_LiteralTuple ==
    (/\ epc = "done"
     /\ \A i \in 1 .. Len(eTokens) : LiteralTuple(eTokens[i]))
    => /\ eOut.tag = "ok"
       /\ Len(eOut.ids) = Len(eTokens)
       /\ \A i \in 1 .. Len(eOut.ids) :
              /\ eOut.ids[i].k = "row"
              /\ eOut.ids[i].row.plate = eTokens[i].f[1].n
              /\ eOut.ids[i].row.mjd = eTokens[i].f[2].n
              /\ eOut.ids[i].row.fiber = eTokens[i].f[3].n
              /\ eOut.ids[i].row.run2d = eTokens[i].f[4].s
       /\ \A i \in 1 .. Len(eOut.calls) : ~eOut.calls[i].queried

(***************************************************************************)
(* Properties of the file locator.                                         *)
(***************************************************************************)
\* The run2d and the survey an identifier carries: those of the packed
\* value, or the fourth and fifth fields of a tuple.
CarriedRun2d(id) ==
    IF id.k = "packed" THEN unpack_specobjid(OfLimbs(id.l)).run2d
    ELSE IF Len(id.t) >= 4 THEN id.t[4] ELSE <<>>
CarriedSurvey(id) ==
    IF id.k = "tuple" /\ Len(id.t) = 5 THEN LocSurvey(id.t[5]) ELSE Sdss

\* The path composed of the identifier's own run2d and survey.
Composed(id, extn) ==
    _buildPath(IdFields(id).plate, IdFields(id).mjd, IdFields(id).fiber,
               CarriedRun2d(id), CarriedSurvey(id), extn)

\* C22: for a packed id with a non-zero run2d or a 5-tuple with a run2d,
\* when the file of the path composed of the id's own run2d and survey
\* exists, _idToPath returns that path, whatever other files exist.
C22_ComposedFirst ==
    (/\ fpc = "done"
     /\ fId.k = "packed" \/ Len(fId.t) = 5
     /\ CarriedRun2d(fId) # <<>>
     /\ Composed(fId, fExtn) \in fDisk)
    => fRes = Found(Composed(fId, fExtn))

\* The candidates of the search for one extension: the permitted run2d
\* codes in their order, then the spectra/full glob.
Searched(id, extn) ==
    _findFile(fDisk, IdFields(id).plate, IdFields(id).mjd, IdFields(id).fiber, extn)
SearchMisses(id, extn) == Searched(id, extn) = {NoneFound}

\* C23: when the id carries no run2d or the composed file does not exist,
\* and the search has a candidate, _idToPath returns the path of the first
\* permitted run2d whose file exists, and a match of the glob only when
\* no permitted run2d has a file; a path it returns always exists.
C23_PermittedOrder ==
    (fpc = "done")
    => /\ fRes.tag = "ok" => fRes.path \in fDisk
       /\ (/\ CarriedRun2d(fId) = <<>> \/ Composed(fId, fExtn) \notin fDisk
           /\ ~SearchMisses(fId, fExtn))
          => /\ fRes \in Searched(fId, fExtn)
             /\ \A i \in 1 .. Len(PermittedRun2d) :
                    LET q == _buildPath(IdFields(fId).plate, IdFields(fId).mjd,
                                        IdFields(fId).fiber, PermittedRun2d[i], Sdss, fExtn)
                    IN  /\ (q \in fDisk /\ \A j \in 1 .. i - 1 :
                               _buildPath(IdFields(fId).plate, IdFields(fId).mjd,
                                          IdFields(fId).fiber, PermittedRun2d[j], Sdss,
                                          fExtn) \notin fDisk)
                           => fRes = Found(q)
                        /\ (fRes.path.full => q \notin fDisk)

\* Reached: two permitted codes have a file, the composed file is missing,
\* and the first of the two was returned.
C23_Witness ==
    /\ fpc = "done"
    /\ CarriedRun2d(fId) # <<>> /\ Composed(fId, fExtn) \notin fDisk
    /\ Cardinality({i \in 1 .. Len(PermittedRun2d) :
                       _buildPath(LocPlate, LocMjd, LocFiber, PermittedRun2d[i], Sdss,
                                  fExtn) \in fDisk}) = 2
    /\ fRes = Found(_buildPath(LocPlate, LocMjd, LocFiber, PermittedRun2d[1], Sdss, fExtn))

\* C24: when npy was asked for and neither the composed path nor the
\* search has an npy file, _idToPath raises only if the fits composed path
\* and the fits search have no file either.
C24_FitsRetry ==
    (/\ fpc = "done" /\ fExtn = "npy"
     /\ CarriedRun2d(fId) = <<>> \/ Composed(fId, "npy") \notin fDisk
     /\ SearchMisses(fId, "npy")
     /\ fRes.tag = "raise")
    => /\ CarriedRun2d(fId) = <<>> \/ Composed(fId, "fits") \notin fDisk
       /\ SearchMisses(fId, "fits")

(***************************************************************************)
(* Properties of the process state.                                        *)
(***************************************************************************)
\* C25: whatever requests were served, every service object of
\* Registry.services is as it was at startup: no request's debug or
\* verbose value is left in it for a later request.
C25_ServicesUntouched ==
    ppc = "run" => \A c \in Contexts : pSvc[c] = NewService

\* C26: the n-th GET /spec/debug returns 'True' when n is odd and 'False'
\* when n is even.
C26_DebugToggles ==
    (ppc = "run" /\ pResp.endpoint = "debug")
    => pResp.head = (IF pCount.debug % 2 = 1 THEN "True" ELSE "False")

(***************************************************************************)
(* Properties of stackedImage.                                             *)
(***************************************************************************)
StackedDone ==
    spc = "done" /\ sReq.endpoint = "stackedImage" /\ sResp = Bytes

\* C27: the stacked array of a request over N ids with thickness T >= 1 has
\* T * N rows, rows k*T .. k*T+T-1 showing the k-th id, the first one
\* included.
C27_ThickRows ==
    (StackedDone /\ IntOf(sReq.params.thickness) >= 1)
    => /\ Len(sImg.rows) = IntOf(sReq.params.thickness) * Len(sImg.ids)
       /\ \A k \in 0 .. Len(sImg.ids) - 1 :
          \A j \in 1 .. IntOf(sReq.params.thickness) :
              /\ k * IntOf(sReq.params.thickness) + j <= Len(sImg.rows)
              /\ sImg.rows[k * IntOf(sReq.params.thickness) + j] = sImg.ids[k + 1]

\* C28: the image is resized by (xscale, yscale) when one of them is not
\* 1; else, when width or height is not 0, it is width pixels wide and
\* height pixels high; else it keeps its native size.
C28_Resize ==
    StackedDone
    => sImg.size = ResizedAsNamed(sImg.native, FloatOf(sReq.params.xscale),
                                  FloatOf(sReq.params.yscale),
                                  IntOf(sReq.params.width), IntOf(sReq.params.height))

\* C29: the spectra stackedImage draws are the identifiers expandIDList
\* makes of id_list, in that order.
C29_DrawsExpanded ==
    StackedDone => sImg.ids = IdsOf(expandIDList(sReq.params.id_list))

(***************************************************************************)
(* Properties of the client's getSpec.                                     *)
(***************************************************************************)
\* C30: the form specClient.getSpec posts holds every field the server's
\* getSpec handler reads, so that the response is never a 'Param Error:'.
C30_PayloadComplete ==
    kCall.fn = "getSpec" => kResp # ParamError
====
